------------------------------- MODULE Config -------------------------------
(***************************************************************************)
(* Config (config.go) and Env (env.go): configurations are read from files, *)
(* copied, merged onto one another and finalized, in any order, and New    *)
(* accepts one whose Finalized is true.                                    *)
(*                                                                         *)
(* Options is a Go map: a copy of a Config shares it, so maps are kept in a *)
(* heap and a Config holds a reference.  A map, once made, may be held by  *)
(* anyone.  A field's value is Unset ("", 0 or nil), a value that is valid, *)
(* Invalid (a negative size, a timeout that is not positive) or, for a     *)
(* timeout, Default.                                                       *)
(***************************************************************************)
EXTENDS Naturals, Sequences

CONSTANTS
    Configs,  \* the Configs the program holds
    Fields,   \* the fields looked at, a subset of AllFields
    Keys,     \* the option keys
    Values,   \* the values that are valid, of any field or option
    MaxMaps   \* bound: maps made

Texts == {"Endpoint", "Container", "Account", "Key"}
Sizes == {"MaxObjectSize", "ListPageSize"}
Timeouts == {"RequestTimeout", "ReadIdleTimeout"}
AllFields == Texts \cup Sizes \cup Timeouts

Unset == "unset"
Invalid == "invalid"
Default == "default"
Malformed == "malformed"

ASSUME FieldsAssumption == Fields \subseteq AllFields /\ "Container" \in Fields
ASSUME ValuesAssumption ==
    Values \cap {Unset, Invalid, Default, Malformed, "zero"} = {}
ASSUME MaxMapsAssumption == MaxMaps \in Nat \ {0}

VARIABLES
    cfg,    \* each Config: its fields, its Options' map, its finalized
    maps,   \* the maps made, in the order they were made; 0 is nil
    env,    \* the variables under the program's prefix, of fields and options
    merged  \* history: the Config was merged into after its last Finalize

vars == <<cfg, maps, env, merged>>

FieldValues(f) ==
    Values \cup {Unset} \cup (IF f \in Texts THEN {} ELSE {Invalid})
                        \cup (IF f \in Timeouts THEN {Default} ELSE {})
\* What a variable may hold: nothing (Unset), a value, or for a size a zero.
EnvValues(f) ==
    Values \cup {Unset} \cup (IF f \in Texts THEN {} ELSE {Invalid, Malformed})
                        \cup (IF f \in Sizes THEN {"zero"} ELSE {})
AnyValue == Values \cup {Unset, Invalid, Default}
Map == [Keys -> Values \cup {Unset}]
NoOptions == [k \in Keys |-> Unset]

TypeOK ==
    /\ cfg \in [Configs -> [val : [Fields -> AnyValue], options : Nat,
                            finalized : BOOLEAN]]
    /\ \A c \in Configs :
          /\ \A f \in Fields : cfg[c].val[f] \in FieldValues(f)
          /\ cfg[c].options <= Len(maps)
    /\ maps \in Seq(Map)
    /\ \A f \in Fields : env.fields[f] \in EnvValues(f)
    /\ env.options \in Map
    /\ merged \in [Configs -> BOOLEAN]

Decoded ==
    {v \in [Fields -> Values \cup {Unset, Invalid}] :
        \A f \in Fields : v[f] \in FieldValues(f)}

\* Configs decoded from files; the first map may be one they share.
Init ==
    /\ maps \in {<<m>> : m \in Map}
    /\ cfg \in [Configs -> [val : Decoded, options : {0, 1}, finalized : {FALSE}]]
    /\ env \in [fields : {v \in [Fields -> UNION {EnvValues(f) : f \in Fields}] :
                             \A f \in Fields : v[f] \in EnvValues(f)},
                options : Map]
    /\ merged = [c \in Configs |-> FALSE]

-----------------------------------------------------------------------------
(* Options.                                                                *)

\* new's set entries over old.
Overlay(old, new) ==
    [x \in DOMAIN old |-> IF new[x] # Unset THEN new[x] ELSE old[x]]

Options(c) == IF cfg[c].options = 0 THEN NoOptions ELSE maps[cfg[c].options]

\* Mutant: writes to the map c has.
UpdateInPlace(c, val, over, finalized) ==
    /\ cfg' = [cfg EXCEPT ![c].val = val, ![c].finalized = finalized]
    /\ maps' = [m \in DOMAIN maps |->
                   IF m = cfg[c].options THEN Overlay(maps[m], over) ELSE maps[m]]

\* c becomes val and finalized, with over's entries written to its Options: to
\* a clone, or to a new map in place of nil.
Update(c, val, over, finalized) ==
    IF over = NoOptions
    THEN /\ cfg' = [cfg EXCEPT ![c].val = val, ![c].finalized = finalized]
         /\ UNCHANGED maps
    ELSE /\ Len(maps) < MaxMaps
         /\ maps' = Append(maps, Overlay(Options(c), over))
         /\ cfg' = [cfg EXCEPT ![c] = [val |-> val, options |-> Len(maps) + 1,
                                       finalized |-> finalized]]

-----------------------------------------------------------------------------
(* Merge, and a copy by value.                                             *)

\* Merge leaves finalized as it is.
Merge(c, src) ==
    /\ Update(c, Overlay(cfg[c].val, cfg[src].val), Options(src),
              cfg[c].finalized)
    /\ merged' = [merged EXCEPT ![c] = TRUE]
    /\ UNCHANGED env

Copy(c, src) ==
    /\ cfg' = [cfg EXCEPT ![c] = cfg[src]]
    /\ merged' = [merged EXCEPT ![c] = merged[src]]
    /\ UNCHANGED <<maps, env>>

-----------------------------------------------------------------------------
(* Finalize.                                                               *)

\* The variables Finalize reads: none with an empty prefix.
NewEnv(prefixed) ==
    IF prefixed THEN env
    ELSE [fields |-> [f \in Fields |-> Unset], options |-> NoOptions]

applyDefaults(val) ==
    [f \in Fields |->
        IF f \in Timeouts /\ val[f] = Unset THEN Default ELSE val[f]]

\* The order in which applyEnv looks at the variables.
Rank(f) ==
    CASE f \in Texts           -> 0
      [] f = "MaxObjectSize"   -> 1
      [] f = "ListPageSize"    -> 2
      [] f = "options"         -> 3
      [] f = "RequestTimeout"  -> 4
      [] f = "ReadIdleTimeout" -> 5

\* applyEnv stops at the first malformed variable; what it has set stays set.
\* SetDurationFromEnv replaces the pointer it is given the address of.
Reached(e, f) ==
    \A g \in Fields : e.fields[g] = Malformed => Rank(f) < Rank(g)

applyEnv(val, e) ==
    [f \in Fields |->
        IF e.fields[f] = Unset \/ ~Reached(e, f) THEN val[f]
        ELSE IF e.fields[f] = "zero" THEN Unset
        ELSE e.fields[f]]

applyOptionsEnv(e) == IF Reached(e, "options") THEN e.options ELSE NoOptions

validate(val) ==
    /\ val["Container"] # Unset
    /\ \A f \in Fields : val[f] # Invalid

\* Mutant: a failed Finalize leaves the mark of an earlier one.
FinalizeKeepsMark(c, prefixed) ==
    LET e == NewEnv(prefixed)
        val == applyEnv(applyDefaults(cfg[c].val), e)
        parsed == \A f \in Fields : e.fields[f] # Malformed
    IN  /\ Update(c, val, applyOptionsEnv(e),
                  cfg[c].finalized \/ (parsed /\ validate(val)))
        /\ merged' = [merged EXCEPT ![c] = FALSE]
        /\ UNCHANGED env

Finalize(c, prefixed) ==
    LET e == NewEnv(prefixed)
        val == applyEnv(applyDefaults(cfg[c].val), e)
        parsed == \A f \in Fields : e.fields[f] # Malformed
    IN  /\ Update(c, val, applyOptionsEnv(e), parsed /\ validate(val))
        /\ merged' = [merged EXCEPT ![c] = FALSE]
        /\ UNCHANGED env

Next ==
    \E c \in Configs :
        \/ \E src \in Configs : Merge(c, src) \/ Copy(c, src)
        \/ \E prefixed \in BOOLEAN : Finalize(c, prefixed)

Spec == Init /\ [][Next]_vars

-----------------------------------------------------------------------------
(* Properties.                                                             *)

\* What New accepts it can use: a container and both timeouts, which it
\* dereferences, although layers were merged after the Finalize, and only valid
\* values when none was (config.go:71-72, 221-223).
AcceptedIsUsable ==
    \A c \in Configs :
        cfg[c].finalized =>
            /\ \A f \in Fields \cap ({"Container"} \cup Timeouts) :
                  cfg[c].val[f] # Unset
            /\ ~merged[c] => validate(cfg[c].val)

\* A map that the caller or another Config may share is never written to, by a
\* Merge or by an override of the environment (config.go:76-78, 179-180).
SharedOptionsUntouched ==
    [][\A m \in DOMAIN maps : maps'[m] = maps[m]]_vars
=============================================================================
