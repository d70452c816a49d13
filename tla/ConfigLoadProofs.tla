---------------------------- MODULE ConfigLoadProofs ----------------------------
(***************************************************************************)
(* Proofs about the start of drill-mcp for every file, every environment   *)
(* and every list of flags.                                                *)
(***************************************************************************)
EXTENDS ConfigLoad, TLAPS

\* The three sources taken together, as far as load_config has got.
FileValues == IF file.state = "mapping" THEN file.keys ELSE <<>>
WithEnv == Updated(FileValues, env)
Merged == Updated(WithEnv, Overrides)
Ints == [f \in DOMAIN Merged |-> Coerced(Merged[f], f)]
IntsRead == \A f \in IntFields \cap DOMAIN Merged : ~NotAnInt(Merged[f])

SourcesInv == file \in Files /\ env \in Envs /\ args \in Args /\ kerberos \in BOOLEAN

\* What has been found when a Config has been built.
Passed ==
    /\ file.state \in {"none", "mapping"} /\ ~ArgsRefused /\ IntsRead /\ Valid(Ints)
    /\ config = Filled(Ints)

--------------------------------------------------------------------------------
(* The sources. *)

\* The keys that each source may set.
LEMMA Domains ==
    ASSUME SourcesInv
    PROVE  /\ DOMAIN FileValues \subseteq FileKeys
           /\ \A f \in DOMAIN FileValues : FileValues[f] \in Value
           /\ DOMAIN env \subseteq Fields /\ DOMAIN args \subseteq Fields
           /\ \A f \in DOMAIN env : env[f] \in Value
           /\ \A f \in DOMAIN args : args[f] \in Value
           /\ \A f \in DOMAIN args \ ListFields : args[f].kind = "text"
           /\ DOMAIN args \cap IntFields \subseteq {"max_rows"}
<1>1. /\ DOMAIN file.keys \subseteq FileKeys
      /\ \A f \in DOMAIN file.keys : file.keys[f] \in Value
      BY FileAssumption DEF SourcesInv, IsPartial
<1>2. DOMAIN <<>> = {}
      OBVIOUS
<1>3. IsPartial(env, EnvFields) /\ IsPartial(args, ArgFields)
      BY EnvAssumption, ArgsAssumption DEF SourcesInv
<1>4. EnvFields \subseteq Fields /\ ArgFields \subseteq Fields
      BY DEF EnvFields, ArgFields, Fields, IntFields
<1>5. ArgFields \cap IntFields \subseteq {"max_rows"}
      BY DEF ArgFields, IntFields, ListFields
<1>6. \A f \in DOMAIN args \ ListFields : args[f].kind = "text"
  <2>1. \A f \in DOMAIN args : args[f].kind = IF f \in ListFields THEN "list" ELSE "text"
        BY ArgsAssumption DEF SourcesInv
  <2>2. QED
        BY <2>1
<1>7. /\ DOMAIN FileValues \subseteq FileKeys
      /\ \A f \in DOMAIN FileValues : FileValues[f] \in Value
      BY <1>1, <1>2 DEF FileValues
<1>8. QED
      BY <1>3, <1>4, <1>5, <1>6, <1>7 DEF IsPartial

\* A text that has become an int is still a value, and becomes nothing else.
LEMMA AsIntValue ==
    ASSUME NEW v \in Value
    PROVE  /\ AsInt(v) \in Value /\ AsInt(v).kind # "text" /\ AsInt(AsInt(v)) = AsInt(v)
           /\ v.kind # "text" => AsInt(v) = v
  BY DEF AsInt, Value

\* What a key has once the sources are merged.
LEMMA MergedValues ==
    ASSUME SourcesInv
    PROVE  /\ DOMAIN Merged = DOMAIN FileValues \cup DOMAIN env \cup DOMAIN args
           /\ DOMAIN Ints = DOMAIN Merged
           /\ \A f \in DOMAIN args :
                  Merged[f] = IF f = "max_rows" THEN AsInt(args[f]) ELSE args[f]
           /\ \A f \in DOMAIN env \ DOMAIN args : Merged[f] = env[f]
           /\ \A f \in DOMAIN FileValues \ (DOMAIN env \cup DOMAIN args) :
                  Merged[f] = FileValues[f]
           /\ \A f \in DOMAIN Merged : Merged[f] \in Value /\ Ints[f] \in Value
<1>1. /\ DOMAIN WithEnv = DOMAIN FileValues \cup DOMAIN env
      /\ \A f \in DOMAIN WithEnv : WithEnv[f] = IF f \in DOMAIN env THEN env[f] ELSE FileValues[f]
      BY DEF WithEnv, Updated
<1>2. /\ DOMAIN Overrides = DOMAIN args
      /\ \A f \in DOMAIN args :
             Overrides[f] = IF f = "max_rows" THEN AsInt(args[f]) ELSE args[f]
      BY DEF Overrides
<1>3. /\ DOMAIN Merged = DOMAIN WithEnv \cup DOMAIN args
      /\ \A f \in DOMAIN Merged :
             Merged[f] = IF f \in DOMAIN args THEN Overrides[f] ELSE WithEnv[f]
      BY <1>2 DEF Merged, Updated
<1>4. \A f \in DOMAIN Merged : Merged[f] \in Value
      BY <1>1, <1>2, <1>3, Domains, AsIntValue
<1>5. DOMAIN Ints = DOMAIN Merged /\ \A f \in DOMAIN Merged : Ints[f] \in Value
      BY <1>4, AsIntValue DEF Ints, Coerced
<1>6. QED
      BY <1>1, <1>2, <1>3, <1>4, <1>5

\* The defaults are values that Config accepts.
LEMMA DefaultAcceptable ==
    ASSUME NEW f \in Fields
    PROVE  /\ Default(f) \in Value /\ Coerced(Default(f), f) = Default(f)
           /\ ~NotAnInt(Default(f)) \/ f \notin IntFields
           /\ Acceptable(f, Default(f))
<1>1. CASE f \in IntFields
  <2>1. f \notin {"url", "backend", "auth"} /\ f \notin OptionalFields /\ f \notin ListFields
        BY <1>1 DEF IntFields, OptionalFields, ListFields
  <2>2. \A n \in {"1000", "60"} : n \in Spellings /\ NumberOf[n] > 0
        BY SpellingAssumption
  <2>3. /\ Default(f).kind = "int" /\ Default(f).is \in {"1000", "60"}
        /\ Default(f) = [kind |-> "int", is |-> Default(f).is]
        BY <1>1, <2>1 DEF Default, IntFields
  <2>4. Default(f) \in Value
        BY <2>2, <2>3 DEF Value
  <2>5. QED
        BY <1>1, <2>1, <2>2, <2>3, <2>4, AsIntValue DEF Coerced, Acceptable, NotAnInt, Number
<1>2. CASE f \in {"url", "backend", "auth"}
      BY <1>2, SpellingAssumption
         DEF Default, Value, Text, Coerced, Acceptable, IntFields, OptionalFields, ListFields
<1>3. CASE f \in ListFields
      BY <1>3, SpellingAssumption
         DEF Default, Value, Empty, Coerced, Acceptable, IntFields, OptionalFields, ListFields
<1>4. CASE f \in OptionalFields
      BY <1>4, SpellingAssumption
         DEF Default, Value, Empty, Coerced, Acceptable, IntFields, OptionalFields, ListFields
<1>5. QED
      BY <1>1, <1>2, <1>3, <1>4 DEF Fields

\* What is built from the merged values is what the last source says of each field.
LEMMA MergedIsSaid ==
    ASSUME SourcesInv, NEW f \in Fields
    PROVE  /\ f \in DOMAIN Ints => Ints[f] = Coerced(Said(f), f)
           /\ f \notin DOMAIN Ints => Said(f) = Default(f)
           /\ Filled(Ints)[f] = Coerced(Said(f), f)
<1>1. f \in DOMAIN Ints <=> f \in DOMAIN FileValues \cup DOMAIN env \cup DOMAIN args
      BY MergedValues
<1>2. f \in DOMAIN Ints => Ints[f] = Coerced(Merged[f], f)
      BY MergedValues DEF Ints
<1>3. ASSUME f \in DOMAIN args PROVE Coerced(Merged[f], f) = Coerced(Said(f), f)
  <2>1. Said(f) = args[f] /\ args[f] \in Value
        BY <1>3, Domains DEF Said
  <2>2. CASE f = "max_rows"
        BY <1>3, <2>1, <2>2, MergedValues, AsIntValue DEF Coerced, IntFields
  <2>3. CASE f # "max_rows"
        BY <1>3, <2>1, <2>3, MergedValues
  <2>4. QED
        BY <2>2, <2>3
<1>4. ASSUME f \in DOMAIN env \ DOMAIN args PROVE Merged[f] = Said(f)
      BY <1>4, MergedValues DEF Said
<1>5. ASSUME f \in DOMAIN FileValues \ (DOMAIN env \cup DOMAIN args) PROVE Merged[f] = Said(f)
  <2>1. file.state = "mapping" /\ f \in DOMAIN file.keys /\ FileValues = file.keys
        BY <1>5 DEF FileValues
  <2>2. QED
        BY <1>5, <2>1, MergedValues DEF Said
<1>6. ASSUME f \notin DOMAIN Ints PROVE Said(f) = Default(f)
      BY <1>1, <1>6 DEF Said, FileValues
<1>7. QED
      BY <1>1, <1>2, <1>3, <1>4, <1>5, <1>6, DefaultAcceptable DEF Filled

--------------------------------------------------------------------------------
(* The stages. *)

\* What is known at each stage; `config` is empty until it is built.
StageInv ==
    /\ stage \in Endings \cup
           {"parse", "file", "environment", "overrides", "coerce", "construct", "build"}
    /\ stage \in {"parse", "file"} => values = <<>>
    /\ stage \notin {"parse", "usage"} => ~ArgsRefused
    /\ stage \in {"environment", "overrides", "coerce", "construct"} =>
           file.state \in {"none", "mapping"}
    /\ stage = "environment" => values = FileValues
    /\ stage = "overrides" => values = WithEnv
    /\ stage = "coerce" => values = Merged
    /\ stage = "construct" => values = Ints /\ IntsRead
    /\ stage \in {"parse", "file", "environment", "overrides", "coerce", "construct"} =>
           config = <<>>
    /\ stage \in {"build", "serving", "drillError"} => Passed
    /\ config = <<>> \/ Passed
    /\ stage = "configError" =>
           \/ file.state \in FileStates \ {"none", "mapping"}
           \/ ~IntsRead
           \/ ~Valid(Ints)
    /\ stage = "serving" /\ config["backend"].is = "rest" /\ config["auth"].is = "kerberos"
           => kerberos

\* Nothing is lost between the stages of main() and load_config.
LEMMA StagesCorrect == Spec => [](SourcesInv /\ StageInv)
<1> USE DEF Endings
<1>1. Init => SourcesInv /\ StageInv
      BY DEF Init, SourcesInv, StageInv
<1>2. SourcesInv /\ StageInv /\ [Next]_vars => SourcesInv' /\ StageInv'
  <2> SUFFICES ASSUME SourcesInv, StageInv, [Next]_vars PROVE SourcesInv' /\ StageInv'
      OBVIOUS
  <2>1. UNCHANGED sources
        BY DEF Next, ParseArgs, ReadFile, ApplyEnvironment, ApplyOverrides, CoerceInts,
               Construct, BuildClient, vars
  <2>2. /\ SourcesInv' /\ (ArgsRefused' <=> ArgsRefused)
        /\ FileValues' = FileValues /\ WithEnv' = WithEnv /\ Merged' = Merged
        /\ Ints' = Ints /\ (IntsRead' <=> IntsRead)
        BY <2>1 DEF sources, SourcesInv, ArgsRefused, FileValues, WithEnv, Merged, Overrides,
                    Ints, IntsRead
  <2>3. Valid(Ints)' <=> Valid(Ints)
        BY <2>2 DEF Valid, Filled
  <2>4. config' = config => (Passed' <=> Passed)
        BY <2>1, <2>2, <2>3 DEF Passed, sources, Filled
  <2>5. file.state \in FileStates /\ file' = file /\ kerberos' = kerberos
        BY <2>1, FileAssumption DEF SourcesInv, sources
  <2> USE <2>2, <2>3, <2>4, <2>5
  <2>6. CASE UNCHANGED vars
        BY <2>6 DEF vars, StageInv
  <2>7. CASE ParseArgs
        BY <2>7 DEF ParseArgs, StageInv
  <2>8. CASE ReadFile
    <3>1. Updated(<<>>, file.keys) = file.keys
      <4>1. DOMAIN <<>> = {} /\ file.keys = [k \in DOMAIN file.keys |-> file.keys[k]]
            BY FileAssumption DEF SourcesInv, IsPartial
      <4>2. QED
            BY <4>1 DEF Updated
    <3>2. QED
          BY <2>8, <3>1 DEF ReadFile, StageInv, FileValues, FileStates
  <2>9. CASE ApplyEnvironment
        BY <2>9 DEF ApplyEnvironment, StageInv, WithEnvironment, WithEnv
  <2>10. CASE ApplyOverrides
         BY <2>10 DEF ApplyOverrides, StageInv, Merged
  <2>11. CASE CoerceInts
         BY <2>11 DEF CoerceInts, StageInv, Ints, IntsRead
  <2>12. CASE Construct
    <3>1. CASE stage' = "build"
      <4>1. config' = Filled(Ints)' /\ Valid(Ints)
            BY <2>12, <3>1 DEF Construct, StageInv, Filled
      <4>2. Passed'
            BY <2>12, <4>1 DEF Construct, StageInv, Passed
      <4>3. QED
            BY <2>12, <3>1, <4>2 DEF Construct, StageInv
    <3>2. CASE stage' # "build"
          BY <2>12, <3>2 DEF Construct, StageInv
    <3>3. QED
          BY <3>1, <3>2
  <2>13. CASE BuildClient
         BY <2>13 DEF BuildClient, StageInv
  <2>14. QED
         BY <2>6, <2>7, <2>8, <2>9, <2>10, <2>11, <2>12, <2>13 DEF Next
<1>3. QED
      BY <1>1, <1>2, PTL DEF Spec

--------------------------------------------------------------------------------
(* The theorems. *)

\* What is built of the merged values has the types that TypeOK asks for.
LEMMA TypesKnown ==
    ASSUME SourcesInv
    PROVE  /\ IsPartial(Ints, FileKeys)
           /\ Filled(Ints) \in [Fields -> Value]
<1>1. DOMAIN Ints \subseteq FileKeys
      BY Domains, MergedValues DEF FileKeys
<1>2. \A f \in DOMAIN Ints : Ints[f] \in Value
      BY MergedValues
<1>3. Ints = [f \in DOMAIN Ints |-> Ints[f]]
      BY MergedValues DEF Ints
<1>4. QED
      BY <1>1, <1>2, <1>3, DefaultAcceptable DEF IsPartial, Filled

\* Updating keeps a function on some of the keys.
LEMMA UpdatedPartial ==
    ASSUME NEW keys, NEW old, NEW new, IsPartial(old, keys), IsPartial(new, keys)
    PROVE  IsPartial(Updated(old, new), keys)
  BY DEF IsPartial, Updated

\* The merged values and the Config are of their types at every stage
\* (config.py:63-80, 91-117).
THEOREM TypeCorrect == Spec => []TypeOK
<1>1. Init => TypeOK
      BY DEF Init, TypeOK, Endings, IsPartial
<1>2. SourcesInv /\ StageInv => IsPartial(Ints, FileKeys) /\ (config = <<>> \/ config \in [Fields -> Value])
      BY TypesKnown DEF StageInv, Passed
<1>3. /\ SourcesInv /\ StageInv /\ SourcesInv' /\ StageInv' /\ TypeOK /\ [Next]_vars
      /\ IsPartial(Ints, FileKeys)' /\ (config = <<>> \/ config \in [Fields -> Value])'
      => TypeOK'
  <2> SUFFICES ASSUME SourcesInv, StageInv, SourcesInv', StageInv', TypeOK, [Next]_vars,
                      IsPartial(Ints, FileKeys)',
                      (config = <<>> \/ config \in [Fields -> Value])'
               PROVE  TypeOK'
      OBVIOUS
  <2>1. IsPartial(values', FileKeys)
    <3>1. IsPartial(values, FileKeys) /\ Fields \subseteq FileKeys
          BY DEF TypeOK, FileKeys
    <3>2. IsPartial(env, FileKeys)
          BY <3>1, Domains, EnvAssumption DEF SourcesInv, IsPartial
    <3>3. IsPartial(Overrides, FileKeys)
          BY <3>1, Domains, AsIntValue DEF Overrides, IsPartial
    <3>4. IsPartial(file.keys, FileKeys)
          BY FileAssumption DEF SourcesInv
    <3>5. \/ values' = values
          \/ \E new \in {file.keys, env, Overrides} : values' = Updated(values, new)
          \/ stage' = "construct"
          BY DEF Next, ParseArgs, ReadFile, ApplyEnvironment, WithEnvironment, ApplyOverrides,
                 CoerceInts, Construct, BuildClient, vars
    <3>6. CASE stage' = "construct"
      <4>1. values' = Ints'
            BY <3>6 DEF StageInv
      <4>2. QED
            BY <4>1
    <3>7. QED
          BY <3>1, <3>2, <3>3, <3>4, <3>5, <3>6, UpdatedPartial
  <2>2. QED
        BY <2>1 DEF TypeOK, StageInv, SourcesInv
<1>4. QED
      BY <1>1, <1>2, <1>3, StagesCorrect, PTL DEF Spec

\* What a running server has passed the checks, or is a default
\* (config.py:63-80, client_rest.py:500-507).
THEOREM ServesConfigured == Spec => []ServingIsConfigured
<1>1. SourcesInv /\ StageInv => ServingIsConfigured
  <2>1. SUFFICES ASSUME SourcesInv, StageInv, stage = "serving" PROVE ServingIsConfigured
        BY DEF ServingIsConfigured
  <2>2. Passed
        BY <2>1 DEF StageInv
  <2>3. \A f \in Fields : config[f] \in Value /\ Acceptable(f, config[f])
        BY <2>1, <2>2, DefaultAcceptable, MergedValues DEF Passed, Filled, Valid
  <2>4. IntFields \cup ListFields \cup {"auth", "backend"} \subseteq Fields
        BY DEF Fields
  <2>5. Consistent(config)
        BY <2>2 DEF Passed, Valid
  <2>6. QED
        BY <2>1, <2>3, <2>4, <2>5 DEF ServingIsConfigured, StageInv, Acceptable, Consistent
<1>2. QED
      BY <1>1, StagesCorrect, PTL

\* The order of the three sources decides, for every field by itself
\* (config.py:101-105).
THEOREM LastSourceDecides == Spec => []LastSourceWins
<1>1. SourcesInv /\ StageInv => LastSourceWins
      BY MergedIsSaid DEF StageInv, Passed, LastSourceWins
<1>2. QED
      BY <1>1, StagesCorrect, PTL

\* load_config refuses what is wrong when the sources are merged, and nothing else
\* (config.py:94-128).
THEOREM RefusesFaults == Spec => []RefusedForAFault
<1>1. ASSUME SourcesInv, NEW f \in DOMAIN Merged, f \in IntFields, f \notin DOMAIN args
      PROVE  Merged[f] = Said(f)
  <2>1. \/ file.state = "mapping" /\ FileValues = file.keys
        \/ f \notin DOMAIN FileValues
        BY DEF FileValues
  <2>2. QED
        BY <1>1, <2>1, MergedValues DEF Said
<1>2. ASSUME SourcesInv, NEW f \in IntFields \cap DOMAIN Merged, NotAnInt(Merged[f])
      PROVE  NotAnInt(Said(f))
  <2>1. CASE f \in DOMAIN args
    <3>1. f = "max_rows" /\ args[f] \in Value
          BY <1>2, <2>1, Domains
    <3>2. QED
          BY <1>2, <2>1, <3>1, MergedValues, AsIntValue DEF NotAnInt
  <2>2. QED
        BY <1>1, <1>2, <2>1
<1>3. ASSUME SourcesInv, ~ArgsRefused, IntsRead, NEW f \in IntFields
      PROVE  ~NotAnInt(Said(f))
  <2>1. CASE f \in DOMAIN args
    <3>1. f = "max_rows" /\ Said(f) = args[f]
          BY <2>1, <1>3, Domains DEF Said
    <3>2. QED
          BY <1>3, <2>1, <3>1 DEF ArgsRefused, NotAnInt
  <2>2. CASE f \in DOMAIN Merged /\ f \notin DOMAIN args
        BY <1>1, <1>3, <2>2 DEF IntsRead
  <2>3. CASE f \notin DOMAIN Merged
        BY <1>3, <2>3, MergedIsSaid, MergedValues, DefaultAcceptable DEF Fields
  <2>4. QED
        BY <2>1, <2>2, <2>3
<1>4. ASSUME SourcesInv
      PROVE  Consistent(Filled(Ints)) <=> Consistent([f \in Fields |-> Said(f)])
  <2>1. {"auth", "user", "password", "backend", "jdbc_driver_path"} \subseteq Fields \ IntFields
        BY DEF Fields, IntFields, OptionalFields
  <2>2. \A f \in Fields \ IntFields : Filled(Ints)[f] = Said(f)
        BY <1>4, MergedIsSaid DEF Coerced
  <2>3. QED
        BY <2>1, <2>2 DEF Consistent
<1>5. ASSUME SourcesInv, StageInv, stage = "configError" PROVE Faulty
  <2>1. CASE file.state \in FileStates \ {"none", "mapping"}
        BY <2>1 DEF Faulty
  <2>2. CASE ~IntsRead
        BY <1>2, <1>5, <2>2 DEF IntsRead, Faulty
  <2>3. CASE ~(DOMAIN Ints \subseteq Fields)
    <3>1. file.state = "mapping" /\ ~(DOMAIN file.keys \subseteq Fields)
          BY <1>5, <2>3, MergedValues, Domains DEF FileValues
    <3>2. QED
          BY <3>1 DEF Faulty
  <2>4. CASE \E f \in DOMAIN Ints \cap Fields : ~Acceptable(f, Ints[f])
        BY <1>5, <2>4, MergedIsSaid DEF Faulty
  <2>5. CASE ~Consistent(Filled(Ints))
        BY <1>4, <1>5, <2>5 DEF Faulty
  <2>6. QED
        BY <1>5, <2>1, <2>2, <2>3, <2>4, <2>5 DEF StageInv, Valid
<1>6. ASSUME SourcesInv, Passed PROVE ~Faulty
  <2>1. ~(file.state = "mapping" /\ ~(DOMAIN file.keys \subseteq Fields))
        BY <1>6, MergedValues DEF Passed, Valid, FileValues
  <2>2. \A f \in Fields : Acceptable(f, Coerced(Said(f), f))
        BY <1>6, MergedIsSaid, DefaultAcceptable DEF Passed, Valid
  <2>3. QED
        BY <1>3, <1>4, <1>6, <2>1, <2>2 DEF Passed, Valid, Faulty
<1>7. SourcesInv /\ StageInv => RefusedForAFault
      BY <1>5, <1>6 DEF RefusedForAFault, StageInv
<1>8. QED
      BY <1>7, StagesCorrect, PTL
================================================================================
