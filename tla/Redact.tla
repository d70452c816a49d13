--------------------------------- MODULE Redact ---------------------------------
(***************************************************************************)
(* drill_mcp/redact.py: what redact() makes of a JSON value.               *)
(*                                                                         *)
(* A value gives a node to each path of keys and positions that leads to   *)
(* one.  The text of a leaf is a sequence of the pieces that the two       *)
(* patterns tell apart: "userinfo" is `scheme://user:pass@`, "?secret" and *)
(* "&secret" begin a query parameter with the name of a secret, "&"        *)
(* another one, "plain" is anything else.  A piece that is taken out       *)
(* leaves its place in the text empty.                                     *)
(***************************************************************************)
EXTENDS Integers, Sequences

CONSTANTS
    Keys,           \* keys of dicts
    SensitiveKeys,  \* the keys that _SENSITIVE finds something in
    Inputs          \* values that are redacted

\* Where a member of a list or a tuple has none.
NoKey == "no key"
Path == Seq([key : Keys \cup {NoKey}, at : Nat])
Parent(path) == SubSeq(path, 1, Len(path) - 1)
LastKey(path) == path[Len(path)].key

Containers == {"dict", "list", "tuple"}
Kinds == Containers \cup {"text", "scalar"}

\* What a pattern's substitution puts in: "clean" is `scheme://***REDACTED***@`,
\* "?REDACTED" the name of a parameter with `***REDACTED***` for its value.
RawPieces == {"userinfo", "?secret", "&secret", "&", "plain"}
Pieces == RawPieces \cup {"clean", "?REDACTED", "&REDACTED", "REDACTED"}

Node(kind, text) == [kind |-> kind, text |-> text]
REDACTED == Node("text", <<"REDACTED">>)

ASSUME KeyAssumption == SensitiveKeys \subseteq Keys \ {NoKey}
\* Only containers have items, only texts have text.
ASSUME InputAssumption ==
    \A value \in Inputs :
        /\ DOMAIN value \subseteq Path
        /\ <<>> \in DOMAIN value
        /\ \A path \in DOMAIN value \ {<<>>} :
               /\ Parent(path) \in DOMAIN value
               /\ value[Parent(path)].kind \in Containers
               /\ LastKey(path) = NoKey <=> value[Parent(path)].kind # "dict"
        /\ \A path \in DOMAIN value :
               /\ value[path] \in [kind : Kinds, text : Seq(RawPieces)]
               /\ value[path].kind # "text" => value[path].text = <<>>

VARIABLES
    given,     \* the argument of redact
    returned,  \* the part of the result that is there
    todo       \* the paths to the values that a call of redact is still to be made for

vars == <<given, returned, todo>>

--------------------------------------------------------------------------------

WithoutUserinfo_Blank(text) ==
    [i \in DOMAIN text |-> IF text[i] = "userinfo" THEN "" ELSE text[i]]
\* _URL_USERINFO.sub
WithoutUserinfo(text) ==
    [i \in DOMAIN text |-> IF text[i] = "userinfo" THEN "clean" ELSE text[i]]

\* A match of _QUERY_SECRET begins with the name of a secret and goes on to the
\* next "&".
SecretBegins(piece) == piece \in {"?secret", "&secret"}
SecretEnds_AtQuestionMark(piece) == piece \in {"&", "&secret", "?secret"}
SecretEnds(piece) == piece \in {"&", "&secret"}

\* Read from left to right: whether what comes after each piece is still in a match.
Matching(text) ==
    LET inside[i \in 0..Len(text)] ==
            /\ i > 0
            /\ SecretBegins(text[i]) \/ (inside[i - 1] /\ ~SecretEnds(text[i]))
    IN  inside

\* _QUERY_SECRET.sub
WithoutQuerySecrets(text) ==
    LET value == {i \in 1..Len(text) : Matching(text)[i - 1] /\ ~SecretEnds(text[i])}
    IN  [i \in DOMAIN text \ value |->
            CASE text[i] = "?secret" -> "?REDACTED"
              [] text[i] = "&secret" -> "&REDACTED"
              [] OTHER -> text[i]]

\* _scrub_value
Scrubbed(text) == WithoutQuerySecrets(WithoutUserinfo(text))

MustGo_TextOnly(key, node) == key \in SensitiveKeys /\ node.kind = "text"
\* Whatever is at a sensitive key goes, with all that is below it.
MustGo(key, node) == key \in SensitiveKeys

Copied(node) ==
    IF node.kind = "text" THEN Node("text", Scrubbed(node.text)) ELSE node

Init ==
    /\ given \in Inputs
    /\ returned = [path \in {} |-> REDACTED]
    /\ todo = {<<>>}

\* redact for the value at one path: its own node, REDACTED for the items that must
\* go, and a call for each of the others.  Nothing depends on their order.
Redact(path) ==
    LET items == {item \in DOMAIN given \ {<<>>} : Parent(item) = path}
        gone == {item \in items : MustGo(LastKey(item), given[item])}
    IN  /\ returned' = [p \in DOMAIN returned \cup {path} \cup gone |->
                           IF p = path THEN Copied(given[p])
                           ELSE IF p \in gone THEN REDACTED
                           ELSE returned[p]]
        /\ todo' = (todo \ {path}) \cup (items \ gone)
        /\ UNCHANGED given

Next == \E path \in todo : Redact(path)
Spec == Init /\ [][Next]_vars

--------------------------------------------------------------------------------
(* Properties. *)

TypeOK ==
    /\ todo \subseteq DOMAIN given
    /\ DOMAIN returned \subseteq DOMAIN given
    /\ \A path \in DOMAIN returned :
           LET node == returned[path]
           IN  /\ node = Node(node.kind, node.text)
               /\ node.kind \in Kinds
               /\ \A i \in DOMAIN node.text : i \in Nat /\ node.text[i] \in Pieces

Secret(path) == \E i \in DOMAIN path : path[i].key \in SensitiveKeys

\* redact keeps every node that is not below a secret key, as what it was, and has
\* REDACTED in the place of what is at such a key (redact.py:69-82,
\* docs/tools.md:328-333).
ShapeKept ==
    todo = {} =>
        /\ DOMAIN returned = {path \in DOMAIN given : path = <<>> \/ ~Secret(Parent(path))}
        /\ \A path \in DOMAIN returned :
               IF Secret(path)
               THEN returned[path] = REDACTED
               ELSE returned[path].kind = given[path].kind

\* Between the name of a secret and the next "&".
Covered(text, i) ==
    \E j \in 1..(i - 1) :
        text[j] \in {"?secret", "&secret"} /\ \A k \in (j + 1)..i : text[k] \notin {"&", "&secret"}

\* Of a text outside of secret keys what is no secret stays in its place, every
\* secret has REDACTED instead, also one inside of another, and nothing else is put
\* in (redact.py:48-66).
OnlySecretsGone ==
    todo = {} =>
        \A path \in {p \in DOMAIN given : ~Secret(p)} :
            LET old == given[path].text
                new == returned[path].text
            IN  /\ DOMAIN new = {i \in DOMAIN old : ~Covered(old, i)}
                /\ \A i \in DOMAIN new :
                       /\ old[i] \in {"&", "plain"} => new[i] = old[i]
                       /\ old[i] = "userinfo" => new[i] = "clean"
                       /\ old[i] = "?secret" => new[i] = "?REDACTED"
                       /\ old[i] = "&secret" => new[i] = "&REDACTED"
================================================================================
