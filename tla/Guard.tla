--------------------------------- MODULE Guard ---------------------------------
(***************************************************************************)
(* drill_mcp/guard.py: which SQL texts run_query may pass on to Drill.     *)
(*                                                                         *)
(* A text is what sqlglot makes of it, a record:                           *)
(*   explains   how many EXPLAIN [PLAN FOR] stand in front of it           *)
(*   kind       what is left: "blank", "garbage" (does not parse),         *)
(*              "several" (statements), "read", "create", "drop",          *)
(*              "command" (keyword and unparsed text), "other"             *)
(*   keyword    the keyword of a command                                   *)
(*   object     what a create or drop is about: "TABLE", "VIEW", ...       *)
(*   targets    tables it writes; for a create or drop none when sqlglot   *)
(*              does not present them as tables                            *)
(*   embedded   tables written by a statement inside a read                *)
(*   tables     tables it reads                                            *)
(*   mentions   other names in the raw text: a SHOW target, a literal      *)
(*                                                                         *)
(* sqlglot has three places for the parts of a table's name: `catalog` and *)
(* `db`, and `this`, which takes all parts from the third on.  So a table  *)
(* is its schema, <<>> if unqualified, and `seen`, how many components of  *)
(* it are in the first two parts: all of them, or at least two (more than  *)
(* two if a part is quoted with dots inside).                              *)
(***************************************************************************)
EXTENDS Names

CONSTANT MaxExplainDepth    \* _MAX_EXPLAIN_DEPTH

ASSUME DepthAssumption == MaxExplainDepth \in Nat

Table ==
    { t \in [schema : Name, seen : Nat] :
        t.seen <= Len(t.schema) /\ (t.seen = Len(t.schema) \/ t.seen >= 2) }

SqlText(text) ==
    /\ text.explains \in Nat
    /\ text.targets \cup text.embedded \cup text.tables \subseteq Table
    /\ text.mentions \subseteq Name
    /\ text.targets # {} => text.kind \in {"create", "drop", "several", "other", "garbage"}
    /\ text.embedded # {} => text.kind = "read"

\* _schema_prefix: `table.catalog` and `table.db`, and nothing below.
SchemaPrefix(t) == SubSeq(t.schema, 1, t.seen)

SafeCommands == {"SHOW", "DESCRIBE", "DESC"}

\* The policy of guard.Policy: two sets of names.
Policy == [writable : SUBSET Name, hidden : SUBSET Name]

--------------------------------------------------------------------------------
(* The text that _check sees at recursion depth d, with d EXPLAINs removed.    *)

IsExplain(text, d) == d < text.explains
IsCommand(text, d) == IsExplain(text, d) \/ text.kind = "command"

\* sqlglot.parse returns exactly one statement.
OneStatement(text, d) == IsExplain(text, d) \/ text.kind \notin {"blank", "garbage", "several"}

\* statement.find_all(exp.Table): a command has no parsed tables.
ParsedTables(text, d) ==
    IF IsCommand(text, d) THEN {} ELSE text.targets \cup text.embedded \cup text.tables

\* The words of the raw text after a command's keyword.
Words(text) ==
    LET names == {t.schema : t \in text.targets \cup text.embedded \cup text.tables}
                     \cup text.mentions
    IN  {Lower[p] : p \in UNION {{name[i] : i \in DOMAIN name} : name \in names}}

\* re.search(rf"\b{head}\b", remainder, re.IGNORECASE); the head of an empty
\* entry is the empty pattern, which every remainder with a word in it matches.
HeadMentioned(entry, text) == entry = <<>> \/ Lower[entry[1]] \in Words(text)

CheckHidden_SkipsCommands(text, policy, d) ==
    \A t \in ParsedTables(text, d) : ~MatchesPrefix(SchemaPrefix(t), policy.hidden)

CheckHidden(text, policy, d) ==
    /\ \A t \in ParsedTables(text, d) : ~MatchesPrefix(SchemaPrefix(t), policy.hidden)
    /\ IsCommand(text, d) => \A entry \in policy.hidden : ~HeadMentioned(entry, text)

CheckTargets_AnyTarget(text, policy) ==
    /\ text.object \in {"TABLE", "VIEW"}
    /\ \E t \in text.targets : MatchesPrefix(SchemaPrefix(t), policy.writable)

\* A create or drop: a permitted kind of object, targets that could be
\* determined, and every one of them qualified and writable.
CheckTargets(text, policy) ==
    /\ text.object \in {"TABLE", "VIEW"}
    /\ text.targets # {}
    /\ \A t \in text.targets : MatchesPrefix(SchemaPrefix(t), policy.writable)

\* Under an EXPLAIN the verdict is left to depth d + 1.
CheckWrite(text, policy, d) ==
    \/ IsExplain(text, d) /\ d < MaxExplainDepth
    \/ /\ ~IsExplain(text, d)
       /\ \/ text.kind = "read" /\ text.embedded = {}
          \/ text.kind = "command" /\ text.keyword \in SafeCommands
          \/ text.kind \in {"create", "drop"} /\ CheckTargets(text, policy)

CheckAt(text, policy, d) ==
    /\ OneStatement(text, d)
    /\ CheckHidden(text, policy, d)
    /\ CheckWrite(text, policy, d)

\* guard.check: _check at every depth down to the text without EXPLAINs.  All
\* refusals are a PolicyError, so their order does not matter.
Check(text, policy) == \A d \in 0..text.explains : CheckAt(text, policy, d)

\* guard.is_show_command.
IsShowCommand(text) ==
    text.explains = 0 /\ text.kind = "command" /\ text.keyword = "SHOW"

--------------------------------------------------------------------------------
(* Drill's side: external.  It resolves all components of a name.              *)

Schemas(tables) == Resolved({t.schema : t \in tables})

\* Entries that the two parts of a table's name which the guard sees can match
\* wherever they lie above the table.
Short(entries) == {entry \in entries : Len(entry) <= 2}

\* The hidden entries that the guard keeps a text away from: in a command it
\* searches the whole text, in a parsed table its prefix only.
KeptFrom(text, policy) ==
    IF IsCommand(text, 0) THEN policy.hidden ELSE Short(policy.hidden)
================================================================================
