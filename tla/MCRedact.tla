-------------------------------- MODULE MCRedact --------------------------------
(***************************************************************************)
(* Redact on every text of up to five pieces, and on values nested three   *)
(* deep with one secret key and one other.                                 *)
(***************************************************************************)
EXTENDS Redact

MCKeys == {"name", "secretKey"}
MCSensitiveKeys == {"secretKey"}

Leaf(node) == [path \in {<<>>} |-> node]
Text(pieces) == Leaf(Node("text", pieces))
Texts == {Text(pieces) : pieces \in UNION {[1..n -> RawPieces] : n \in 0..5}}

\* A container with the values of `items` at their keys, in that order.
Item(key, value) == [key |-> key, value |-> value]
Holding(kind, items) ==
    LET Step(i) == <<[key |-> items[i].key, at |-> i]>>
        below == UNION {{Step(i) \o p : p \in DOMAIN items[i].value} : i \in DOMAIN items}
    IN  [path \in {<<>>} \cup below |->
            IF path = <<>> THEN Node(kind, <<>>) ELSE items[path[1].at].value[Tail(path)]]

Around(values) ==
    {Holding("dict", <<>>), Holding("list", <<>>)}
    \cup {Holding("dict", <<Item(k, v)>>) : k \in MCKeys, v \in values}
    \cup {Holding("dict", <<Item("secretKey", v), Item("name", w)>>) : v \in values, w \in values}
    \cup {Holding(kind, <<Item(NoKey, v), Item(NoKey, w)>>) :
             kind \in {"list", "tuple"}, v \in values, w \in values}

Leaves == {Leaf(Node("scalar", <<>>)), Text(<<"userinfo", "&secret", "plain">>)}
Shallow == Leaves \cup Around(Leaves)
MCInputs == Texts \cup Around(Shallow)
                  \cup {Holding("dict", <<Item(k, v)>>) : k \in MCKeys, v \in Around(Shallow)}
================================================================================
