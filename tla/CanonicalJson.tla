--------------------------- MODULE CanonicalJson ---------------------------
(***************************************************************************)
(* The canonical JSON text of a document, as the three implementations     *)
(* compute it: Python (canonical.py), Go (internal/canonical) and Node     *)
(* (canonical.mjs). Digests and signatures are taken over this text.       *)
(*                                                                         *)
(* A document is what a client writes, before any implementation parses    *)
(* it: a tuple that starts with its kind. A number keeps the way it is     *)
(* written and a map the order in which its keys are written:              *)
(*    <<"null">>, <<"bool", b>>, <<"num", n, form>>, <<"str", s>>,         *)
(*    <<"bytes", hex>>, <<"list", members>>, <<"map", entries>>            *)
(* with each entry a pair <<key, member>> and each form "int" (7),         *)
(* "minus_zero" (-0), "decimal" (7.0), "rounded" (7.0...01, a fraction of  *)
(* which 7 is the nearest double) or "fraction" (7.5, any other). The three*)
(* implementations recurse: the call on a list or a map uses what the calls*)
(* on its members return. A document therefore holds, in the place of a    *)
(* member, its part: the record of what those calls returned. Documents are*)
(* written from their parts up, so that the recursion is the order of the  *)
(* steps, to any depth. Brackets, separators and escapes make a text       *)
(* unambiguous, so it is modelled by the tree it spells: two texts are the *)
(* same bytes exactly when they are equal here.                            *)
(***************************************************************************)
EXTENDS Integers, Sequences, FiniteSets, Functions

CONSTANTS
  Leaves,         \* the documents without members that a client may write
  Keys,           \* the keys it may use
  CodePoints,     \* [strings -> their code points]
  Nfc(_),         \* Unicode normalisation of one string (external)
  ArrayIndex,     \* [strings JavaScript takes for an array index -> the index]
  Replacement,    \* the string U+FFFD
  MaxSafeInteger, \* 2^53 - 1
  Considered(_,_) \* bound: the documents written, with those kept as parts

Strings == DOMAIN CodePoints

\* The ways to write a number that Python's parser makes a float of.
FloatForms == {"decimal", "rounded", "fraction"}

Forms == {"int", "minus_zero"} \cup FloatForms

ASSUME SafeRange == MaxSafeInteger \in Nat

\* A string is its code points.
ASSUME StringsAreCodePoints ==
  /\ \A s \in Strings : CodePoints[s] \in Seq(Nat) /\ Nfc(s) \in Strings
  /\ \A s, t \in Strings : CodePoints[s] = CodePoints[t] => s = t
  /\ {Replacement, "$bytes_hex"} \cup Keys \subseteq Strings

\* An array index is written in one way only.
ASSUME IndexesAreCanonical ==
  /\ \A s \in DOMAIN ArrayIndex : ArrayIndex[s] \in Nat
  /\ \A s, t \in DOMAIN ArrayIndex : ArrayIndex[s] = ArrayIndex[t] => s = t

ASSUME LeavesHaveNoMembers ==
  \A v \in Leaves :
    \/ v = <<"null">>
    \/ v \in {"bool"} \X BOOLEAN
    \/ v \in {"num"} \X Int \X Forms
    \/ v \in {"str", "bytes"} \X Strings
    \/ v \in {"list", "map"} \X {<< >>}

VARIABLES
  doc,            \* the document being written
  parts           \* the finished documents that can be members of it

vars == <<doc, parts>>

Kind(v) == v[1]

Rejected == <<"rejected">>

\* A range with one integer too many: 2^53 is a double, 2^53 + 1 is not.
SafeIntegerOffByOne(n) == -MaxSafeInteger <= n /\ n <= MaxSafeInteger + 1

SafeInteger(n) == -MaxSafeInteger <= n /\ n <= MaxSafeInteger

Integer(n) == <<"num", n, "int">>

\* Every code point is a Unicode scalar value: no lone surrogate.
Scalar(s) == \A i \in DOMAIN CodePoints[s] : CodePoints[s][i] \notin 55296 .. 57343

\* a comes before b in the lexical order of sequences of numbers.
LexicallyBefore(a, b) ==
  \E n \in 0 .. Len(a) :
    /\ n < Len(b)
    /\ \A i \in 1 .. n : a[i] = b[i]
    /\ n < Len(a) => a[n + 1] < b[n + 1]

\* The order of sorted() and of sort.Strings on the UTF-8 form.
CodePointOrder(s, t) == LexicallyBefore(CodePoints[s], CodePoints[t])

\* The order of UTF-16 code units, the default of Array.prototype.sort: U+E000 to
\* U+FFFF come after the characters that are written with surrogates.
Utf16Order(s, t) ==
  LET place(point) == IF point \in 57344 .. 65535 THEN point + 1114112 ELSE point
      places(str) == [i \in DOMAIN CodePoints[str] |-> place(CodePoints[str][i])]
  IN LexicallyBefore(places(s), places(t))

KeysOf(entries) == [i \in DOMAIN entries |-> entries[i][1]]

Collide(keys) == \E i, j \in DOMAIN keys : i < j /\ keys[i] = keys[j]

\* The elements of a finite set in the order of a relation that is total on it.
Ordered(S, before) ==
  [r \in 1 .. Cardinality(S) |->
     CHOOSE x \in S : Cardinality({y \in S : <<y, x>> \in before}) = r - 1]

ByKey(entries) ==
  Ordered(Range(entries),
          {p \in Range(entries) \X Range(entries) : CodePointOrder(p[1][1], p[2][1])})

-----------------------------------------------------------------------------
(* Python *)

\* A dict whose keys were normalised without looking for collisions: the last
\* value of a key overwrites the others.
PythonMapOverwriting(entries) ==
  LET last == {i \in DOMAIN entries : \A j \in DOMAIN entries : entries[j][1] = entries[i][1] => j <= i}
  IN <<"map", ByKey(SelectSeq(entries, LAMBDA e : \E i \in last : entries[i] = e))>>

\* The dict branch of _normalize: entries come with normalised keys and members.
PythonMap(entries) ==
  IF Collide(KeysOf(entries)) THEN Rejected ELSE <<"map", ByKey(entries)>>

\* _normalize and _dump.
Python(v, profile) ==
  CASE Kind(v) \in {"null", "bool"} -> v
    [] Kind(v) = "num" ->
         IF v[3] \in FloatForms \/ (profile = "portable" /\ ~SafeInteger(v[2]))
         THEN Rejected ELSE Integer(v[2])
    [] Kind(v) = "str" -> IF Scalar(v[2]) THEN <<"str", Nfc(v[2])>> ELSE Rejected
    [] Kind(v) = "bytes" ->
         IF profile = "portable" THEN Rejected
         ELSE <<"map", << <<"$bytes_hex", <<"str", v[2]>> >> >> >>
    [] Kind(v) = "list" ->
         LET members == [i \in DOMAIN v[2] |-> v[2][i].python[profile]]
         IN IF \E i \in DOMAIN members : members[i] = Rejected
            THEN Rejected ELSE <<"list", members>>
    [] Kind(v) = "map" ->
         LET entries == [i \in DOMAIN v[2] |->
                           <<Nfc(v[2][i][1]), v[2][i][2].python[profile]>>]
         IN IF \/ \E i \in DOMAIN v[2] : ~Scalar(v[2][i][1])
               \/ \E i \in DOMAIN entries : entries[i][2] = Rejected
            THEN Rejected ELSE PythonMap(entries)

\* canonical_bytes and portable_canonical_bytes.
PythonLocal(v) == Python(v, "local")
PythonPortable(v) == Python(v, "portable")

-----------------------------------------------------------------------------
(* Go *)

\* encoding/json puts U+FFFD for a lone surrogate, so no string reaches
\* appendJSONString that is not valid UTF-8.
Decoded(s) == IF Scalar(s) THEN s ELSE Replacement

GoString(s) == Nfc(Decoded(s))

\* appendCanonical: it writes a number as it was written, once big.Int has
\* taken it for an integer in range.
Go(v) ==
  CASE Kind(v) \in {"null", "bool"} -> v
    [] Kind(v) = "num" ->
         IF v[3] \notin FloatForms /\ SafeInteger(v[2]) THEN v ELSE Rejected
    [] Kind(v) = "str" -> <<"str", GoString(v[2])>>
    [] Kind(v) = "list" ->
         LET members == [i \in DOMAIN v[2] |-> v[2][i].go]
         IN IF \E i \in DOMAIN members : members[i] = Rejected
            THEN Rejected ELSE <<"list", members>>
    [] Kind(v) = "map" ->
         LET entries == [i \in DOMAIN v[2] |-> <<GoString(v[2][i][1]), v[2][i][2].go>>]
         IN IF Collide(KeysOf(entries)) \/ \E i \in DOMAIN entries : entries[i][2] = Rejected
            THEN Rejected ELSE <<"map", ByKey(entries)>>
    [] OTHER -> Rejected

-----------------------------------------------------------------------------
(* Node *)

\* The order in which JavaScript enumerates the properties of an object that
\* were set in the order of entries: array indexes first.
Enumerated(entries) ==
  LET places == DOMAIN entries
      index(i) == entries[i][1] \in DOMAIN ArrayIndex
      earlier == {p \in places \X places :
                    IF index(p[1]) /\ index(p[2])
                    THEN ArrayIndex[entries[p[1]][1]] < ArrayIndex[entries[p[2]][1]]
                    ELSE index(p[1]) \/ (~index(p[2]) /\ p[1] < p[2])}
      order == Ordered(places, earlier)
  IN [r \in places |-> entries[order[r]]]

EncodedInUtf16Order(object) ==
  LET entries == Range(Enumerated(object))
  IN Ordered(entries, {p \in entries \X entries : Utf16Order(p[1][1], p[2][1])})

\* The keys of an object in encodeCanonical: Object.keys, sorted by compareUtf8.
Encoded(object) == ByKey(Enumerated(object))

\* normalizeCanonical and encodeCanonical. JSON.parse makes one number of 7, 7.0 and
\* every fraction that is nearer to 7 than to any other double, before Number.isSafeInteger
\* sees it; JSON.stringify prints -0 as 0.
Node(v) ==
  CASE Kind(v) \in {"null", "bool"} -> v
    [] Kind(v) = "num" ->
         IF v[3] # "fraction" /\ SafeInteger(v[2]) THEN Integer(v[2]) ELSE Rejected
    [] Kind(v) = "str" -> IF Scalar(v[2]) THEN <<"str", Nfc(v[2])>> ELSE Rejected
    [] Kind(v) = "list" ->
         LET members == [i \in DOMAIN v[2] |-> v[2][i].node]
         IN IF \E i \in DOMAIN members : members[i] = Rejected
            THEN Rejected ELSE <<"list", members>>
    [] Kind(v) = "map" ->
         LET entries == [i \in DOMAIN v[2] |-> <<Nfc(v[2][i][1]), v[2][i][2].node>>]
         IN IF \/ \E i \in DOMAIN v[2] : ~Scalar(v[2][i][1])
               \/ Collide(KeysOf(entries))
               \/ \E i \in DOMAIN entries : entries[i][2] = Rejected
            THEN Rejected ELSE <<"map", Encoded(ByKey(entries))>>
    [] OTHER -> Rejected

-----------------------------------------------------------------------------
(* The documented profile (docs/CANONICALIZATION_PROFILE.md) *)

\* The portable data domain. A number written as a float is none.
InProfile(v) ==
  CASE Kind(v) \in {"null", "bool"} -> TRUE
    [] Kind(v) = "num" -> v[3] \notin FloatForms /\ v[2] \in -MaxSafeInteger .. MaxSafeInteger
    [] Kind(v) = "str" -> Scalar(v[2])
    [] Kind(v) = "list" -> \A i \in DOMAIN v[2] : v[2][i].inProfile
    [] Kind(v) = "map" ->
         /\ \A i \in DOMAIN v[2] : Scalar(v[2][i][1]) /\ v[2][i][2].inProfile
         /\ Cardinality({Nfc(v[2][i][1]) : i \in DOMAIN v[2]}) = Len(v[2])
    [] OTHER -> FALSE

\* No zero is written with a sign: the profile leaves that spelling to the protocol
\* that transports the JSON text.
NoMinusZero(v) ==
  CASE Kind(v) = "num" -> v[3] # "minus_zero"
    [] Kind(v) = "list" -> \A i \in DOMAIN v[2] : v[2][i].noMinusZero
    [] Kind(v) = "map" -> \A i \in DOMAIN v[2] : v[2][i][2].noMinusZero
    [] OTHER -> TRUE

\* No float is written of which JSON.parse makes an integer before Node's
\* canonicaliser could refuse it.
FloatsStayFloats(v) ==
  CASE Kind(v) = "num" -> v[3] \notin {"decimal", "rounded"}
    [] Kind(v) = "list" -> \A i \in DOMAIN v[2] : v[2][i].floats
    [] Kind(v) = "map" -> \A i \in DOMAIN v[2] : v[2][i][2].floats
    [] OTHER -> TRUE

\* No lone surrogate anywhere; Go's decoder has replaced it before the
\* canonicaliser could refuse it.
ScalarStrings(v) ==
  CASE Kind(v) = "str" -> Scalar(v[2])
    [] Kind(v) = "list" -> \A i \in DOMAIN v[2] : v[2][i].scalar
    [] Kind(v) = "map" -> \A i \in DOMAIN v[2] : Scalar(v[2][i][1]) /\ v[2][i][2].scalar
    [] OTHER -> TRUE

\* What a document says, whatever its spelling and the order of its keys; the
\* local profile lets a byte string say what its tagged map says.
Meaning(v) ==
  CASE Kind(v) = "num" -> IF v[3] \in {"rounded", "fraction"} THEN v ELSE <<"num", v[2]>>
    [] Kind(v) = "str" -> <<"str", Nfc(v[2])>>
    [] Kind(v) = "bytes" -> <<"map", {<<"$bytes_hex", <<"str", v[2]>> >>} >>
    [] Kind(v) = "list" -> <<"list", [i \in DOMAIN v[2] |-> v[2][i].meaning]>>
    [] Kind(v) = "map" ->
         <<"map", {<<Nfc(v[2][i][1]), v[2][i][2].meaning>> : i \in DOMAIN v[2]}>>
    [] OTHER -> v

-----------------------------------------------------------------------------
(* A client writes a document, one edit at a time. *)

\* What the calls on a document return, and what the profile says of it.
Part(v) ==
  [python |-> [profile \in {"local", "portable"} |-> Python(v, profile)],
   go |-> Go(v), node |-> Node(v),
   inProfile |-> InProfile(v), noMinusZero |-> NoMinusZero(v),
   floats |-> FloatsStayFloats(v), scalar |-> ScalarStrings(v), meaning |-> Meaning(v)]

LeafParts == {Part(v) : v \in Leaves}

Init == doc \in Leaves /\ parts = {}

\* The document is done: it can be a member of the next ones.
Finish ==
  /\ parts' = parts \cup {Part(doc)} /\ doc' \in Leaves

AppendMember ==
  /\ Kind(doc) = "list"
  /\ \E p \in parts \cup LeafParts : doc' = <<"list", Append(doc[2], p)>>
  /\ UNCHANGED parts

\* Assigning to a key again gives a document that can be written without that; so
\* does, to Go, a key that its decoder makes another one.
AddKey ==
  /\ Kind(doc) = "map"
  /\ \E k \in {key \in Keys : \A i \in DOMAIN doc[2] : Decoded(doc[2][i][1]) # Decoded(key)},
        p \in parts \cup LeafParts :
       doc' = <<"map", Append(doc[2], <<k, p>>)>>
  /\ UNCHANGED parts

Next == (Finish \/ AppendMember \/ AddKey) /\ Considered(doc', parts')

Spec == Init /\ [][Next]_vars

-----------------------------------------------------------------------------
\* Which documents are accepted, at any depth. Python accepts those of the portable
\* profile and no others. Node and Go accept all of them as well. What else they accept
\* is what their parsers change first: Node a document with a float that JSON.parse makes
\* an integer, Go one with a lone surrogate, which becomes U+FFFD. No document outside
\* the profile passes both: a colliding key, a float or an unsafe integer that Python
\* refuses is refused by Go or by Node.
VerdictIsTheProfile ==
  /\ PythonPortable(doc) # Rejected <=> InProfile(doc)
  /\ InProfile(doc) => Node(doc) # Rejected /\ Go(doc) # Rejected
  /\ FloatsStayFloats(doc) => (Node(doc) # Rejected <=> InProfile(doc))
  /\ ScalarStrings(doc) => (Go(doc) # Rejected <=> InProfile(doc))
  /\ Node(doc) # Rejected /\ Go(doc) # Rejected => InProfile(doc)

\* Whatever spelling and order its keys and strings have, a document of the
\* portable profile has one text: Go and Node hash the bytes Python signed, with
\* the local profile too.
LanguagesAgree ==
  NoMinusZero(doc) /\ InProfile(doc) =>
    /\ PythonLocal(doc) = PythonPortable(doc)
    /\ Go(doc) = PythonPortable(doc)
    /\ Node(doc) = PythonPortable(doc)

\* Two documents that the authority accepts have the same text, and so the same
\* digest, exactly when they say the same: no edit that changes what an act says
\* keeps its digest, and no reordering or respelling loses it.
DigestsIdentify ==
  PythonLocal(doc) # Rejected =>
    \A p \in parts \cup LeafParts :
      p.python["local"] # Rejected =>
        ((PythonLocal(doc) = p.python["local"]) <=> (Meaning(doc) = p.meaning))

\* What the package comment of canonical.go promises: Python, Go and Node never
\* silently disagree about numeric identity, that is, they never all accept a
\* document of one number and give it different texts.
NoSilentNumberDisagreement ==
  /\ Kind(doc) = "num"
  /\ PythonPortable(doc) # Rejected /\ Go(doc) # Rejected /\ Node(doc) # Rejected
  => Go(doc) = PythonPortable(doc) /\ Node(doc) = PythonPortable(doc)
=============================================================================
