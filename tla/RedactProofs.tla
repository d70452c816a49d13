------------------------------ MODULE RedactProofs ------------------------------
(***************************************************************************)
(* Proofs about redact for every choice of secret keys, every value and    *)
(* every text.                                                             *)
(***************************************************************************)
EXTENDS Redact, SequenceTheorems, WellFoundedInduction, TLAPS

\* A set of numbers that is not empty has a least one.
LEMMA Least ==
    ASSUME NEW T \in SUBSET Nat, T # {}
    PROVE  \E n \in T : \A m \in T : n <= m
<1>1. PICK n \in T : \A m \in T : ~(<<m, n>> \in OpToRel(<, Nat))
      BY NatLessThanWellFounded, WFMin
<1>2. \A m \in T : ~(m < n)
      BY <1>1 DEF OpToRel
<1>3. ASSUME NEW m \in T PROVE n <= m
  <2>1. n \in Nat /\ m \in Nat /\ ~(m < n)
        BY <1>2
  <2>2. QED
        BY <2>1
<1>4. QED
      BY <1>3

--------------------------------------------------------------------------------
(* The texts: where the left-to-right scan is inside of a match is where the   *)
(* last name of a secret has no "&" after it.                                  *)

\* Whether a match is still open after the first i pieces.
Open(text, i) ==
    \E j \in 1..i : SecretBegins(text[j]) /\ \A k \in (j + 1)..i : ~SecretEnds(text[k])

LEMMA OpenStep ==
    ASSUME NEW S, NEW text \in Seq(S), NEW i \in 0..Len(text)
    PROVE  Open(text, i) <=> /\ i > 0
                             /\ \/ SecretBegins(text[i])
                                \/ Open(text, i - 1) /\ ~SecretEnds(text[i])
<1>n. i \in Nat
      OBVIOUS
<1>1. CASE i = 0
      BY <1>1 DEF Open
<1>2. CASE i > 0
  <2>1. ASSUME Open(text, i), ~SecretBegins(text[i])
        PROVE  Open(text, i - 1) /\ ~SecretEnds(text[i])
    <3>1. PICK j \in 1..i : SecretBegins(text[j]) /\ \A k \in (j + 1)..i : ~SecretEnds(text[k])
          BY <2>1 DEF Open
    <3>2. j # i
          BY <2>1, <3>1
    <3>3. j \in 1..(i - 1) /\ i \in (j + 1)..i /\ (j + 1)..(i - 1) \subseteq (j + 1)..i
          BY <1>n, <3>2
    <3>4. QED
          BY <3>1, <3>3 DEF Open
  <2>2. ASSUME SecretBegins(text[i]) PROVE Open(text, i)
    <3>1. (i + 1)..i = {} /\ i \in 1..i
          BY <1>n, <1>2
    <3>2. QED
          BY <2>2, <3>1 DEF Open
  <2>3. ASSUME Open(text, i - 1), ~SecretEnds(text[i]) PROVE Open(text, i)
    <3>1. PICK j \in 1..(i - 1) :
              SecretBegins(text[j]) /\ \A k \in (j + 1)..(i - 1) : ~SecretEnds(text[k])
          BY <2>3 DEF Open
    <3>2. j \in 1..i /\ \A k \in (j + 1)..i : k \in (j + 1)..(i - 1) \/ k = i
          BY <1>n
    <3>3. QED
          BY <2>3, <3>1, <3>2 DEF Open
  <2>4. QED
        BY <1>2, <2>1, <2>2, <2>3
<1>3. QED
      BY <1>n, <1>1, <1>2

\* The scan has a value for each place, which follows from the one before.
LEMMA MatchingStep ==
    ASSUME NEW S, NEW text \in Seq(S), NEW i \in 0..Len(text)
    PROVE  Matching(text)[i] <=> /\ i > 0
                                 /\ \/ SecretBegins(text[i])
                                    \/ Matching(text)[i - 1] /\ ~SecretEnds(text[i])
<1> DEFINE Scan(f) == [k \in 0..Len(text) |->
                          /\ k > 0
                          /\ SecretBegins(text[k]) \/ (f[k - 1] /\ ~SecretEnds(text[k]))]
           open == [k \in 0..Len(text) |-> Open(text, k)]
<1>1. ASSUME NEW k \in 0..Len(text) PROVE open[k] = Scan(open)[k]
  <2>1. k > 0 => k - 1 \in 0..Len(text)
        OBVIOUS
  <2>2. k > 0 => open[k - 1] = Open(text, k - 1)
        BY <2>1
  <2>3. Open(text, k) \in BOOLEAN
        BY DEF Open
  <2>4. QED
        BY <2>2, <2>3, OpenStep
<1>2. open = Scan(open)
      BY <1>1
<1>3. Matching(text) = CHOOSE f : f = Scan(f)
      BY DEF Matching
<1>4. Matching(text) = Scan(Matching(text))
      BY <1>2, <1>3
<1>5. QED
      BY <1>4

\* So it is what one can say of a place without reading from the left.
LEMMA MatchingIsOpen ==
    ASSUME NEW S, NEW text \in Seq(S), NEW i \in 0..Len(text)
    PROVE  Matching(text)[i] <=> Open(text, i)
<1> DEFINE Wrong == {k \in 0..Len(text) : ~(Matching(text)[k] <=> Open(text, k))}
<1>1. CASE Wrong # {}
  <2>1. Wrong \in SUBSET Nat
        OBVIOUS
  <2>2. PICK k \in Wrong : \A m \in Wrong : k <= m
        BY <1>1, <2>1, Least
  <2>3. k \in 0..Len(text) /\ k \in Nat
        OBVIOUS
  <2>4. k > 0 => k - 1 \in 0..Len(text) /\ ~(k <= k - 1)
        BY <2>3
  <2>5. k > 0 => k - 1 \notin Wrong
        BY <2>2, <2>4
  <2>6. k > 0 => (Matching(text)[k - 1] <=> Open(text, k - 1))
        BY <2>4, <2>5
  <2>7. Matching(text)[k] <=> Open(text, k)
        BY <2>3, <2>6, MatchingStep, OpenStep
  <2>8. QED
        BY <2>7
<1>2. QED
      BY <1>1

\* What the substitution of _QUERY_SECRET leaves, and what becomes of it.
LEMMA ScrubbedText ==
    ASSUME NEW text \in Seq(RawPieces)
    PROVE  /\ DOMAIN Scrubbed(text) = {i \in DOMAIN text : ~Covered(text, i)}
           /\ \A i \in DOMAIN Scrubbed(text) :
                  Scrubbed(text)[i] = CASE text[i] = "userinfo" -> "clean"
                                        [] text[i] = "?secret" -> "?REDACTED"
                                        [] text[i] = "&secret" -> "&REDACTED"
                                        [] OTHER -> text[i]
<1> DEFINE clean == WithoutUserinfo(text)
<1>1. /\ DOMAIN text = 1..Len(text) /\ Len(text) \in Nat
      /\ clean = [i \in 1..Len(text) |-> IF text[i] = "userinfo" THEN "clean" ELSE text[i]]
      BY DEF WithoutUserinfo
<1>2. clean \in Seq(Pieces) /\ Len(clean) = Len(text) /\ DOMAIN clean = 1..Len(text)
      BY <1>1 DEF Pieces
<1>3. \A i \in 1..Len(text) : /\ SecretBegins(clean[i]) <=> text[i] \in {"?secret", "&secret"}
                              /\ SecretEnds(clean[i]) <=> text[i] \in {"&", "&secret"}
      BY <1>1 DEF SecretBegins, SecretEnds
<1>4. ASSUME NEW i \in 1..Len(text)
      PROVE  Matching(clean)[i - 1] /\ ~SecretEnds(clean[i]) <=> Covered(text, i)
  <2>1. i - 1 \in 0..Len(clean)
        BY <1>1, <1>2
  <2>2. Matching(clean)[i - 1] <=> Open(clean, i - 1)
        BY <1>2, <2>1, MatchingIsOpen
  <2>3. \A j \in 1..(i - 1) :
            /\ j \in 1..Len(text) /\ i \in (j + 1)..i
            /\ (j + 1)..i \subseteq 1..Len(text)
            /\ (j + 1)..(i - 1) \subseteq (j + 1)..i
            /\ \A k \in (j + 1)..i : k \in (j + 1)..(i - 1) \/ k = i
        BY <1>1
  <2>4. ASSUME Open(clean, i - 1), ~SecretEnds(clean[i]) PROVE Covered(text, i)
    <3>1. PICK j \in 1..(i - 1) :
              SecretBegins(clean[j]) /\ \A k \in (j + 1)..(i - 1) : ~SecretEnds(clean[k])
          BY <2>4 DEF Open
    <3>2. \A k \in (j + 1)..i : ~SecretEnds(clean[k])
          BY <2>3, <2>4, <3>1
    <3>3. text[j] \in {"?secret", "&secret"} /\ \A k \in (j + 1)..i : text[k] \notin {"&", "&secret"}
          BY <1>3, <2>3, <3>1, <3>2
    <3>4. QED
          BY <3>3 DEF Covered
  <2>5. ASSUME Covered(text, i) PROVE Open(clean, i - 1) /\ ~SecretEnds(clean[i])
    <3>1. PICK j \in 1..(i - 1) :
              /\ text[j] \in {"?secret", "&secret"}
              /\ \A k \in (j + 1)..i : text[k] \notin {"&", "&secret"}
          BY <2>5 DEF Covered
    <3>2. SecretBegins(clean[j]) /\ \A k \in (j + 1)..i : ~SecretEnds(clean[k])
          BY <1>3, <2>3, <3>1
    <3>3. QED
          BY <2>3, <3>2 DEF Open
  <2>6. QED
        BY <2>2, <2>4, <2>5
<1>5. /\ DOMAIN Scrubbed(text) = {i \in 1..Len(text) : ~Covered(text, i)}
      /\ \A i \in DOMAIN Scrubbed(text) :
             Scrubbed(text)[i] = CASE clean[i] = "?secret" -> "?REDACTED"
                                   [] clean[i] = "&secret" -> "&REDACTED"
                                   [] OTHER -> clean[i]
      BY <1>2, <1>4 DEF Scrubbed, WithoutQuerySecrets
<1>6. QED
      BY <1>1, <1>5

--------------------------------------------------------------------------------
(* The paths.                                                                  *)

\* What is left of a sequence without its last element.
LEMMA AllButLast ==
    ASSUME NEW S, NEW s \in Seq(S), s # <<>>
    PROVE  /\ Len(s) \in Nat /\ Len(s) > 0
           /\ SubSeq(s, 1, Len(s) - 1) \in Seq(S)
           /\ Len(SubSeq(s, 1, Len(s) - 1)) = Len(s) - 1
           /\ \A i \in 1..(Len(s) - 1) : SubSeq(s, 1, Len(s) - 1)[i] = s[i]
<1>1. Len(s) \in Nat /\ Len(s) > 0 /\ \A i \in 1..Len(s) : s[i] \in S
      OBVIOUS
<1>2. PICK n \in Nat : n = Len(s) - 1
      BY <1>1
<1>3. \A i \in 1..n : s[i] \in S
      BY <1>1, <1>2
<1>4. /\ SubSeq(s, 1, n) \in Seq(S)
      /\ Len(SubSeq(s, 1, n)) = IF 1 <= n THEN n - 1 + 1 ELSE 0
      /\ \A i \in 1..(n - 1 + 1) : SubSeq(s, 1, n)[i] = s[1 + i - 1]
      BY <1>3, SubSeqProperties
<1>5. n - 1 + 1 = n /\ \A i \in 1..n : 1 + i - 1 = i
      BY <1>2
<1>6. Len(SubSeq(s, 1, n)) = n
      BY <1>2, <1>4
<1>7. \A i \in 1..n : SubSeq(s, 1, n)[i] = s[i]
      BY <1>4, <1>5
<1>8. QED
      BY <1>1, <1>2, <1>4, <1>6, <1>7

\* Cutting off the last step of a path, and what that says of secrets on it.
LEMMA ParentPath ==
    ASSUME NEW path \in Path, path # <<>>
    PROVE  /\ Parent(path) \in Path
           /\ Len(path) \in Nat /\ Len(Parent(path)) \in Nat
           /\ Len(Parent(path)) < Len(path)
           /\ Secret(path) <=> Secret(Parent(path)) \/ LastKey(path) \in SensitiveKeys
<1>1. PICK n \in Nat : n = Len(path)
      BY DEF Path
<1>2. /\ Parent(path) \in Path /\ n > 0 /\ Len(Parent(path)) = n - 1
      /\ \A i \in 1..(n - 1) : Parent(path)[i] = path[i]
      BY <1>1, AllButLast DEF Path, Parent
<1>3. DOMAIN path = 1..n /\ DOMAIN Parent(path) = 1..(n - 1)
      BY <1>1, <1>2 DEF Path
<1>4. n \in 1..n /\ \A i \in 1..n : i \in 1..(n - 1) \/ i = n
      BY <1>2
<1>5. 1..(n - 1) \subseteq 1..n
      OBVIOUS
<1>6. Secret(path) <=> Secret(Parent(path)) \/ LastKey(path) \in SensitiveKeys
  <2>1. LastKey(path) = path[n].key
        BY <1>1 DEF LastKey
  <2>2. Secret(path) <=> \E i \in 1..n : path[i].key \in SensitiveKeys
        BY <1>3 DEF Secret
  <2>3. Secret(Parent(path)) <=> \E i \in 1..(n - 1) : path[i].key \in SensitiveKeys
        BY <1>2, <1>3 DEF Secret
  <2>4. QED
        BY <1>4, <1>5, <2>1, <2>2, <2>3
<1>7. QED
      BY <1>1, <1>2, <1>6

--------------------------------------------------------------------------------
(* What is there of the result is right, and what is missing of it lies at or  *)
(* below a value that a call is still to be made for.                          *)

Kept == {path \in DOMAIN given : path = <<>> \/ ~Secret(Parent(path))}

RedactInv ==
    /\ given \in Inputs
    /\ todo \subseteq Kept /\ \A path \in todo : ~Secret(path)
    /\ DOMAIN returned \subseteq Kept
    /\ \A path \in DOMAIN returned :
           returned[path] = IF Secret(path) THEN REDACTED ELSE Copied(given[path])
    /\ <<>> \in DOMAIN returned \cup todo
    /\ \A path \in Kept \ {<<>>} :
           Parent(path) \in DOMAIN returned => path \in DOMAIN returned \cup todo

\* Initially the call for the whole value is to be made.
LEMMA RedactInvInit == Init => RedactInv
<1> SUFFICES ASSUME Init PROVE RedactInv
    OBVIOUS
<1>1. <<>> \in DOMAIN given /\ ~Secret(<<>>)
      BY InputAssumption DEF Init, Secret
<1>2. QED
      BY <1>1 DEF Init, RedactInv, Kept

\* A call adds its own node and those of the items that must go.
LEMMA RedactInvStep ==
    ASSUME RedactInv, NEW path \in todo, Redact(path)
    PROVE  RedactInv'
<1> DEFINE items == {item \in DOMAIN given \ {<<>>} : Parent(item) = path}
           gone == {item \in items : MustGo(LastKey(item), given[item])}
<1>1. /\ returned' = [p \in DOMAIN returned \cup {path} \cup gone |->
                         IF p = path THEN Copied(given[p])
                         ELSE IF p \in gone THEN REDACTED
                         ELSE returned[p]]
      /\ todo' = (todo \ {path}) \cup (items \ gone)
      /\ given' = given
      BY DEF Redact
<1>2. /\ DOMAIN given \subseteq Path
      /\ path \in Kept /\ ~Secret(path)
      BY InputAssumption DEF RedactInv
<1>3. ASSUME NEW item \in items
      PROVE  item \in Kept /\ (Secret(item) <=> item \in gone)
      BY <1>2, <1>3, ParentPath DEF Kept, MustGo
<1>4. Kept' = Kept
      BY <1>1 DEF Kept
<1>5. todo' \subseteq Kept /\ \A p \in todo' : ~Secret(p)
      BY <1>1, <1>3 DEF RedactInv
<1>6. DOMAIN returned' = DOMAIN returned \cup {path} \cup gone
      BY <1>1
<1>7. DOMAIN returned' \subseteq Kept
      BY <1>2, <1>3, <1>6 DEF RedactInv
<1>8. ASSUME NEW p \in DOMAIN returned'
      PROVE  returned'[p] = IF Secret(p) THEN REDACTED ELSE Copied(given[p])
      BY <1>1, <1>2, <1>3, <1>6, <1>8 DEF RedactInv
<1>9. <<>> \in DOMAIN returned' \cup todo'
      BY <1>1, <1>6 DEF RedactInv
<1>10. ASSUME NEW p \in Kept \ {<<>>}, Parent(p) \in DOMAIN returned'
       PROVE  p \in DOMAIN returned' \cup todo'
  <2>1. p \in DOMAIN given \ {<<>>} /\ p \in Path /\ ~Secret(Parent(p))
        BY <1>2, <1>10 DEF Kept
  <2>2. CASE Parent(p) = path
        BY <1>1, <1>6, <2>1, <2>2
  <2>3. CASE Parent(p) \in gone
        BY <1>3, <2>1, <2>3
  <2>4. CASE Parent(p) \in DOMAIN returned
        BY <1>1, <1>6, <1>10, <2>4 DEF RedactInv
  <2>5. QED
        BY <1>6, <1>10, <2>2, <2>3, <2>4
<1>11. QED
       BY <1>1, <1>4, <1>5, <1>7, <1>8, <1>9, <1>10 DEF RedactInv

\* redact works on kept paths only and leaves no hole between what it has done and
\* what it has still to do (redact.py:69-82).
THEOREM RedactInvCorrect == Spec => []RedactInv
<1>1. RedactInv /\ [Next]_vars => RedactInv'
  <2> SUFFICES ASSUME RedactInv, [Next]_vars PROVE RedactInv'
      OBVIOUS
  <2>1. CASE Next
        BY <2>1, RedactInvStep DEF Next
  <2>2. CASE UNCHANGED vars
        BY <2>2 DEF vars, RedactInv, Kept
  <2>3. QED
        BY <2>1, <2>2
<1>2. QED
      BY <1>1, RedactInvInit, PTL DEF Spec

--------------------------------------------------------------------------------
\* At the end, nothing is missing: a shortest path without a node would have a
\* parent without one.
LEMMA NothingMissing ==
    ASSUME RedactInv, todo = {}
    PROVE  DOMAIN returned = Kept
<1> DEFINE Missing == Kept \ DOMAIN returned
           Lengths == {Len(path) : path \in Missing}
<1>1. DOMAIN given \subseteq Path /\ \A path \in DOMAIN given \ {<<>>} : Parent(path) \in DOMAIN given
      BY InputAssumption DEF RedactInv
<1>2. ASSUME NEW path \in Kept PROVE path \in Path /\ Len(path) \in Nat
  <2>1. path \in Path
        BY <1>1 DEF Kept
  <2>2. QED
        BY <2>1 DEF Path
<1>3. CASE Missing # {}
  <2>1. Lengths \in SUBSET Nat /\ Lengths # {}
        BY <1>2, <1>3
  <2>2. PICK n \in Lengths : \A m \in Lengths : n <= m
        BY <2>1, Least
  <2>3. PICK path \in Missing : n = Len(path)
        OBVIOUS
  <2>4. path # <<>> /\ path \in Kept
        BY DEF RedactInv
  <2>5. /\ Parent(path) \in DOMAIN given /\ ~Secret(Parent(path))
        /\ Len(Parent(path)) < n /\ n \in Nat /\ Len(Parent(path)) \in Nat
        BY <1>1, <1>2, <2>3, <2>4, ParentPath DEF Kept
  <2>6. Parent(path) \in Kept
    <3>1. CASE Parent(path) = <<>>
          BY <2>5, <3>1 DEF Kept
    <3>2. CASE Parent(path) # <<>>
      <4>1. ~Secret(Parent(Parent(path)))
            BY <1>1, <2>5, <3>2, ParentPath
      <4>2. QED
            BY <2>5, <4>1 DEF Kept
    <3>3. QED
          BY <3>1, <3>2
  <2>7. Parent(path) \notin DOMAIN returned
        BY <2>3, <2>4 DEF RedactInv
  <2>8. Len(Parent(path)) \in Lengths
        BY <2>6, <2>7
  <2>9. QED
        BY <2>2, <2>5, <2>8
<1>4. QED
      BY <1>3 DEF RedactInv

\* The result has a node where it should, of the kind it should have
\* (redact.py:69-82).
THEOREM ShapeKeptCorrect == Spec => []ShapeKept
<1>1. RedactInv => ShapeKept
  <2> SUFFICES ASSUME RedactInv, todo = {}
               PROVE  /\ DOMAIN returned = Kept
                      /\ \A path \in DOMAIN returned :
                             IF Secret(path)
                             THEN returned[path] = REDACTED
                             ELSE returned[path].kind = given[path].kind
      BY DEF ShapeKept, Kept
  <2>1. \A node : Copied(node).kind = node.kind
        BY DEF Copied, Node
  <2>2. QED
        BY <2>1, NothingMissing DEF RedactInv
<1>2. QED
      BY <1>1, RedactInvCorrect, PTL

\* No secret that the patterns find is left in a text, and nothing else is lost from
\* it or moved (redact.py:48-66).
THEOREM OnlySecretsGoneCorrect == Spec => []OnlySecretsGone
<1>1. ASSUME RedactInv, todo = {}, NEW path \in DOMAIN given, ~Secret(path)
      PROVE  LET old == given[path].text
                 new == returned[path].text
             IN  /\ DOMAIN new = {i \in DOMAIN old : ~Covered(old, i)}
                 /\ \A i \in DOMAIN new :
                        /\ old[i] \in {"&", "plain"} => new[i] = old[i]
                        /\ old[i] = "userinfo" => new[i] = "clean"
                        /\ old[i] = "?secret" => new[i] = "?REDACTED"
                        /\ old[i] = "&secret" => new[i] = "&REDACTED"
  <2>1. /\ path \in Path
        /\ given[path] \in [kind : Kinds, text : Seq(RawPieces)]
        /\ given[path].kind # "text" => given[path].text = <<>>
        BY <1>1, InputAssumption DEF RedactInv
  <2>2. path \in Kept
        BY <1>1, <2>1, ParentPath DEF Kept
  <2>3. returned[path] = Copied(given[path])
        BY <1>1, <2>2, NothingMissing DEF RedactInv
  <2>4. CASE given[path].kind = "text"
    <3>1. returned[path].text = Scrubbed(given[path].text)
          BY <2>3, <2>4 DEF Copied, Node
    <3>2. given[path].text \in Seq(RawPieces)
          BY <2>1
    <3>3. QED
          BY <3>1, <3>2, ScrubbedText
  <2>5. CASE given[path].kind # "text"
    <3>1. returned[path].text = <<>> /\ given[path].text = <<>>
          BY <2>1, <2>3, <2>5 DEF Copied
    <3>2. QED
          BY <3>1
  <2>6. QED
        BY <2>4, <2>5
<1>2. RedactInv => OnlySecretsGone
      BY <1>1 DEF OnlySecretsGone
<1>3. QED
      BY <1>2, RedactInvCorrect, PTL

\* What is returned is a value again.
THEOREM TypeCorrect == Spec => []TypeOK
<1>1. ASSUME RedactInv, NEW path \in DOMAIN returned
      PROVE  LET node == returned[path]
             IN  /\ node = Node(node.kind, node.text)
                 /\ node.kind \in Kinds
                 /\ \A i \in DOMAIN node.text : i \in Nat /\ node.text[i] \in Pieces
  <2>1. given[path] \in [kind : Kinds, text : Seq(RawPieces)]
        BY <1>1, InputAssumption DEF RedactInv, Kept
  <2>2. CASE Secret(path)
        BY <1>1, <2>2 DEF RedactInv, REDACTED, Node, Kinds, Pieces
  <2>3. CASE ~Secret(path)
    <3>1. returned[path] = Copied(given[path])
          BY <1>1, <2>3 DEF RedactInv
    <3>2. CASE given[path].kind = "text"
      <4>1. returned[path] = Node("text", Scrubbed(given[path].text))
            BY <3>1, <3>2 DEF Copied
      <4>2. \A i \in DOMAIN given[path].text : i \in Nat /\ given[path].text[i] \in RawPieces
            BY <2>1
      <4>3. \A i \in DOMAIN Scrubbed(given[path].text) :
                i \in Nat /\ Scrubbed(given[path].text)[i] \in Pieces
            BY <2>1, <4>2, ScrubbedText DEF Pieces
      <4>4. QED
            BY <4>1, <4>3 DEF Node, Kinds
    <3>3. CASE given[path].kind # "text"
          BY <2>1, <3>1, <3>3 DEF Copied, Node, Pieces
    <3>4. QED
          BY <3>2, <3>3
  <2>4. QED
        BY <2>2, <2>3
<1>2. RedactInv => TypeOK
      BY <1>1 DEF TypeOK, RedactInv, Kept
<1>3. QED
      BY <1>2, RedactInvCorrect, PTL
================================================================================
