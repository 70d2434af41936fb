---------------------------- MODULE ConfigProofs ----------------------------
(***************************************************************************)
(* Proofs about Config, for any number of Configs, any fields, options and *)
(* values.                                                                 *)
(***************************************************************************)
EXTENDS Config, TLAPS

\* What the proofs need of the types: the values of a Config's fields, and
\* references to maps that were made.
ShapeInv ==
    /\ cfg \in [Configs -> [val : [Fields -> AnyValue], options : Nat,
                            finalized : BOOLEAN]]
    /\ merged \in [Configs -> BOOLEAN]
    /\ maps \in Seq(Map)
    /\ \A c \in Configs : cfg[c].options <= Len(maps)
    /\ env.options \in Map
    /\ \A f \in Fields : env.fields[f] \in EnvValues(f)

IInv == ShapeInv /\ AcceptedIsUsable

\* An overlay keeps what is set.
LEMMA OverlayKeeps ==
    ASSUME NEW old, NEW new, NEW x \in DOMAIN old, old[x] # Unset
    PROVE  Overlay(old, new)[x] # Unset
BY DEF Overlay

\* Configs decoded from files are well formed and not finalized.
LEMMA InitInv == Init => IInv
<1> SUFFICES ASSUME Init PROVE IInv
  OBVIOUS
<1>1. PICK m \in Map : maps = <<m>>
  BY DEF Init
<1>2. maps \in Seq(Map) /\ Len(maps) = 1
  BY <1>1
<1>3. cfg \in [Configs -> [val : [Fields -> AnyValue], options : Nat,
                           finalized : BOOLEAN]]
  <2>1. Decoded \subseteq [Fields -> AnyValue]
    <3> SUFFICES ASSUME NEW v \in Decoded PROVE v \in [Fields -> AnyValue]
      OBVIOUS
    <3>1. v \in [Fields -> Values \cup {Unset, Invalid}]
      BY DEF Decoded
    <3>2. QED
      BY <3>1 DEF AnyValue
  <2>2. ASSUME NEW c \in Configs
        PROVE  cfg[c] \in [val : [Fields -> AnyValue], options : Nat,
                           finalized : BOOLEAN]
    <3>1. PICK v \in Decoded, o \in {0, 1} :
              cfg[c] = [val |-> v, options |-> o, finalized |-> FALSE]
      <4>1. cfg[c] \in [val : Decoded, options : {0, 1}, finalized : {FALSE}]
        BY DEF Init
      <4>2. QED
        BY <4>1
    <3>2. v \in [Fields -> AnyValue] /\ o \in Nat
      BY <2>1
    <3>3. QED
      BY <3>1, <3>2
  <2>3. cfg = [c \in Configs |-> cfg[c]]
    BY Zenon DEF Init
  <2>4. QED
    BY <2>2, <2>3
<1>4. ASSUME NEW c \in Configs
      PROVE  cfg[c].options <= Len(maps) /\ cfg[c].finalized = FALSE
  <2>1. cfg[c] \in [val : Decoded, options : {0, 1}, finalized : {FALSE}]
    BY DEF Init
  <2>2. cfg[c].options \in {0, 1} /\ cfg[c].finalized = FALSE
    BY <2>1
  <2>3. QED
    BY <1>2, <2>2
<1>5. ShapeInv
  BY <1>2, <1>3, <1>4 DEF Init, ShapeInv
<1>6. AcceptedIsUsable
  BY <1>4 DEF AcceptedIsUsable
<1>7. QED
  BY <1>5, <1>6 DEF IInv

\* The update of one Config: its fields and mark are the new ones, the others'
\* are as they were, and no map changes.
LEMMA UpdateShape ==
    ASSUME ShapeInv, NEW c \in Configs, NEW val \in [Fields -> AnyValue],
           NEW over \in Map, NEW fin \in BOOLEAN, Update(c, val, over, fin)
    PROVE  /\ cfg' \in [Configs -> [val : [Fields -> AnyValue], options : Nat,
                                    finalized : BOOLEAN]]
           /\ maps' \in Seq(Map)
           /\ \A d \in Configs : cfg'[d].options <= Len(maps')
           /\ \A m \in DOMAIN maps : m \in DOMAIN maps' /\ maps'[m] = maps[m]
           /\ cfg'[c].val = val /\ cfg'[c].finalized = fin
           /\ \A d \in Configs \ {c} : cfg'[d] = cfg[d]
<1> USE DEF ShapeInv
<1>1. CASE over = NoOptions
  <2>1. cfg' = [cfg EXCEPT ![c].val = val, ![c].finalized = fin] /\ maps' = maps
    BY <1>1 DEF Update
  <2>2. /\ cfg' \in [Configs -> [val : [Fields -> AnyValue], options : Nat,
                                 finalized : BOOLEAN]]
        /\ cfg'[c].val = val /\ cfg'[c].finalized = fin
        /\ cfg'[c].options = cfg[c].options
        /\ \A d \in Configs \ {c} : cfg'[d] = cfg[d]
    BY <2>1
  <2>3. QED
    BY <2>1, <2>2
<1>2. CASE over # NoOptions
  <2>1. Options(c) \in Map
    BY DEF Options, NoOptions, Map
  <2>2. Overlay(Options(c), over) \in Map
    BY <2>1 DEF Overlay, Map
  <2>3. /\ maps' = Append(maps, Overlay(Options(c), over))
        /\ cfg' = [cfg EXCEPT ![c] = [val |-> val, options |-> Len(maps) + 1,
                                      finalized |-> fin]]
    BY <1>2 DEF Update
  <2>4. /\ maps' \in Seq(Map) /\ Len(maps') = Len(maps) + 1
        /\ \A m \in DOMAIN maps : m \in DOMAIN maps' /\ maps'[m] = maps[m]
    BY <2>2, <2>3
  <2>5. QED
    BY <2>3, <2>4
<1>3. QED
  BY <1>1, <1>2

\* The fields Finalize computes are values, and its defaults stay set.
LEMMA FinalizeValues ==
    ASSUME ShapeInv, NEW c \in Configs, NEW prefixed \in BOOLEAN
    PROVE  LET e == NewEnv(prefixed)
               val == applyEnv(applyDefaults(cfg[c].val), e)
           IN  /\ val \in [Fields -> AnyValue]
               /\ \A f \in Fields \cap Timeouts : val[f] # Unset
               /\ applyOptionsEnv(e) \in Map
<1> DEFINE e == NewEnv(prefixed)
           base == applyDefaults(cfg[c].val)
           val == applyEnv(base, e)
<1>1. /\ \A f \in Fields : e.fields[f] \in EnvValues(f)
      /\ e.options \in Map
  BY DEF ShapeInv, NewEnv, EnvValues, NoOptions, Map
<1>2. /\ base \in [Fields -> AnyValue]
      /\ \A f \in Fields \cap Timeouts : base[f] # Unset
  BY DEF ShapeInv, applyDefaults, AnyValue, Default, Unset
<1>3. ASSUME NEW f \in Fields
      PROVE  /\ val[f] \in AnyValue
             /\ f \in Timeouts => val[f] # Unset
  <2>1. CASE e.fields[f] = Unset \/ ~Reached(e, f)
    <3>1. val[f] = base[f]
      BY <2>1 DEF applyEnv
    <3>2. QED
      BY <1>2, <2>1, <3>1
  <2>2. CASE e.fields[f] # Unset /\ Reached(e, f)
    <3>1. e.fields[f] # Malformed
      <4>1. Rank(f) \in Nat
        BY FieldsAssumption DEF Rank, AllFields, Texts, Sizes, Timeouts
      <4>2. QED
        BY <2>2, <4>1 DEF Reached
    <3>2. CASE e.fields[f] = "zero"
      <4>1. val[f] = Unset
        BY <2>2, <3>2 DEF applyEnv
      <4>2. f \notin Timeouts
        BY <1>1, <3>2, ValuesAssumption
           DEF EnvValues, Texts, Sizes, Timeouts, Unset, Invalid, Malformed
      <4>3. QED
        BY <4>1, <4>2 DEF AnyValue
    <3>3. CASE e.fields[f] # "zero"
      <4>1. val[f] = e.fields[f]
        BY <2>2, <3>3 DEF applyEnv
      <4>2. QED
        BY <1>1, <2>2, <3>1, <3>3, <4>1 DEF EnvValues, AnyValue
    <3>4. QED
      BY <3>2, <3>3
  <2>3. QED
    BY <2>1, <2>2
<1>4. val \in [Fields -> AnyValue]
  BY <1>3 DEF applyEnv
<1>5. applyOptionsEnv(e) \in Map
  BY <1>1 DEF applyOptionsEnv, NoOptions, Map
<1>6. QED
  BY <1>3, <1>4, <1>5

\* A Merge, a copy and a Finalize keep the invariant and write no map.
LEMMA StepInv ==
    ASSUME IInv, [Next]_vars
    PROVE  IInv' /\ \A m \in DOMAIN maps : maps'[m] = maps[m]
<1> USE DEF IInv
<1>1. CASE UNCHANGED vars
  BY <1>1 DEF vars, ShapeInv, AcceptedIsUsable
<1>2. ASSUME NEW c \in Configs, NEW src \in Configs, Merge(c, src)
      PROVE  IInv' /\ \A m \in DOMAIN maps : maps'[m] = maps[m]
  <2> DEFINE val == Overlay(cfg[c].val, cfg[src].val)
  <2>1. val \in [Fields -> AnyValue]
    BY DEF Overlay, ShapeInv
  <2>2. Options(src) \in Map /\ cfg[c].finalized \in BOOLEAN
    BY DEF ShapeInv, Options, NoOptions, Map
  <2>3. Update(c, val, Options(src), cfg[c].finalized)
    BY <1>2 DEF Merge
  <2> HIDE DEF val
  <2>4. /\ cfg' \in [Configs -> [val : [Fields -> AnyValue], options : Nat,
                                 finalized : BOOLEAN]]
        /\ maps' \in Seq(Map)
        /\ \A d \in Configs : cfg'[d].options <= Len(maps')
        /\ \A m \in DOMAIN maps : m \in DOMAIN maps' /\ maps'[m] = maps[m]
        /\ cfg'[c].val = val /\ cfg'[c].finalized = cfg[c].finalized
        /\ \A d \in Configs \ {c} : cfg'[d] = cfg[d]
    BY <2>1, <2>2, <2>3, UpdateShape
  <2>5. /\ merged' \in [Configs -> BOOLEAN] /\ merged'[c] = TRUE /\ env' = env
        /\ \A d \in Configs \ {c} : merged'[d] = merged[d]
    BY <1>2 DEF Merge, ShapeInv
  <2>6. ShapeInv'
    BY <2>4, <2>5 DEF ShapeInv
  <2>7. \A f \in Fields : cfg[c].val[f] # Unset => val[f] # Unset
    BY OverlayKeeps DEF val, ShapeInv
  <2>8. AcceptedIsUsable'
    BY <2>4, <2>5, <2>7 DEF AcceptedIsUsable, validate
  <2>9. QED
    BY <2>4, <2>6, <2>8
<1>3. ASSUME NEW c \in Configs, NEW src \in Configs, Copy(c, src)
      PROVE  IInv' /\ \A m \in DOMAIN maps : maps'[m] = maps[m]
  BY <1>3 DEF Copy, ShapeInv, AcceptedIsUsable, validate
<1>4. ASSUME NEW c \in Configs, NEW prefixed \in BOOLEAN, Finalize(c, prefixed)
      PROVE  IInv' /\ \A m \in DOMAIN maps : maps'[m] = maps[m]
  <2> DEFINE e == NewEnv(prefixed)
             val == applyEnv(applyDefaults(cfg[c].val), e)
             fin == (\A f \in Fields : e.fields[f] # Malformed) /\ validate(val)
  <2>1. /\ val \in [Fields -> AnyValue]
        /\ \A f \in Fields \cap Timeouts : val[f] # Unset
        /\ applyOptionsEnv(e) \in Map
    BY FinalizeValues
  <2>2. Update(c, val, applyOptionsEnv(e), fin) /\ fin \in BOOLEAN
    BY <1>4 DEF Finalize, validate
  <2>3. fin => validate(val)
    OBVIOUS
  <2> HIDE DEF e, val, fin
  <2>4. /\ cfg' \in [Configs -> [val : [Fields -> AnyValue], options : Nat,
                                 finalized : BOOLEAN]]
        /\ maps' \in Seq(Map)
        /\ \A d \in Configs : cfg'[d].options <= Len(maps')
        /\ \A m \in DOMAIN maps : m \in DOMAIN maps' /\ maps'[m] = maps[m]
        /\ cfg'[c].val = val /\ cfg'[c].finalized = fin
        /\ \A d \in Configs \ {c} : cfg'[d] = cfg[d]
    BY <2>1, <2>2, UpdateShape
  <2>5. /\ merged' \in [Configs -> BOOLEAN] /\ env' = env
        /\ \A d \in Configs \ {c} : merged'[d] = merged[d]
    BY <1>4 DEF Finalize, ShapeInv
  <2>6. ShapeInv'
    BY <2>4, <2>5 DEF ShapeInv
  <2>7. AcceptedIsUsable'
    BY <2>1, <2>3, <2>4, <2>5, SMTT(30) DEF AcceptedIsUsable, validate
  <2>8. QED
    BY <2>4, <2>6, <2>7
<1>5. QED
  BY <1>1, <1>2, <1>3, <1>4 DEF Next

\* The invariant holds whatever is merged, copied and finalized.
THEOREM Invariance == Spec => []IInv
BY InitInv, StepInv, PTL DEF Spec

\* A Config New accepts has a container and timeouts, and valid values unless a
\* layer was merged after its Finalize.
THEOREM AcceptedConfigs == Spec => []AcceptedIsUsable
<1>1. IInv => AcceptedIsUsable
  BY DEF IInv
<1>2. QED
  BY Invariance, <1>1, PTL

\* No map is ever written once it is made, so none that is shared.
THEOREM OptionsIsolated == Spec => SharedOptionsUntouched
<1>1. IInv /\ [Next]_vars => [\A m \in DOMAIN maps : maps'[m] = maps[m]]_vars
  BY StepInv
<1>2. QED
  BY Invariance, <1>1, PTL DEF Spec, SharedOptionsUntouched
=============================================================================
