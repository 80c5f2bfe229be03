------------------------------ MODULE Resources ------------------------------
(***************************************************************************)
(* Resources (src/lib/resources.go): a map from resource name to string.   *)
(* The scheduler receives Cpus(), Memory() and Ports(), which parse the    *)
(* strings and fall back to defaults; Equal() is the comparison the diff   *)
(* uses to tell a Modified deployment from a Same one; Validate() reports  *)
(* a MissingResourceFlaw per absent required field and Repair() writes its *)
(* default into the map.                                                   *)
(*                                                                         *)
(* Two maps, the desired and the observed resources of one deployment, are *)
(* edited to any value of small per-key sets and repaired; the properties  *)
(* relate Equal() to what the strings mean.  Numbers are fixed point with  *)
(* four decimals (Scale), exact for every value used.                      *)
(***************************************************************************)
EXTENDS Integers, FiniteSets, Functions, TLC

CONSTANTS CpusVals, MemoryVals, PortsVals, OtherKey, OtherVals

Sides == {"desired", "observed"}
Required == {"cpus", "memory", "ports"}
Keys == Required \cup {OtherKey}
ValsOf(k) == CASE k = "cpus"   -> CpusVals
               [] k = "memory" -> MemoryVals
               [] k = "ports"  -> PortsVals
               [] OTHER        -> OtherVals
ResourceMaps == UNION {[K -> UNION {ValsOf(k) : k \in K}] : K \in SUBSET Keys}

VARIABLE res   \* res[s]: the Resources map of side s

-----------------------------------------------------------------------------
(* strconv, over the strings the model uses.                               *)

Scale == 10000
\* A float64 is a number (times Scale) or NaN.
Num(n) == [nan |-> FALSE, v |-> n]
NaN == [nan |-> TRUE, v |-> 0]

\* strconv.ParseFloat(s, 64): the value, or err and 0 on a syntax error.
FloatTable == ("0.1" :> 1000) @@ ("1" :> 10000) @@ ("01" :> 10000)
              @@ ("1.0005" :> 10005) @@ ("2" :> 20000) @@ ("2.0" :> 20000)
              @@ ("100" :> 1000000) @@ ("100.0" :> 1000000)
ParseFloat(s) ==
  CASE s \in DOMAIN FloatTable -> [err |-> FALSE, f |-> Num(FloatTable[s])]
    [] s = "NaN"               -> [err |-> FALSE, f |-> NaN]
    [] OTHER                   -> [err |-> TRUE,  f |-> Num(0)]

\* strconv.ParseInt(s, 10, 32): decimal digits only; "3000000000" is out
\* of the int32 range, which is an error too.
IntTable == ("1" :> 1) @@ ("01" :> 1) @@ ("2" :> 2) @@ ("100" :> 100)
ParseInt(s) ==
  IF s \in DOMAIN IntTable THEN [err |-> FALSE, i |-> IntTable[s]]
                           ELSE [err |-> TRUE, i |-> 0]

\* Every string a parser is applied to is one its table decides: a number
\* it knows, or one it rejects.
FloatRejects == {"", "x", "a", "b"}
IntRejects == {"", "x", "a", "b", "NaN", "0.1", "1.0005", "2.0", "100.0", "3000000000"}
ASSUME /\ CpusVals \cup MemoryVals \cup {"0.1", "100"}
            \subseteq DOMAIN FloatTable \cup {"NaN"} \cup FloatRejects
       /\ PortsVals \cup {"1", "100"} \subseteq DOMAIN IntTable \cup IntRejects

\* r[name] of a Go map: "" when absent.
Get(r, k) == IF k \in DOMAIN r THEN r[k] ELSE ""

-----------------------------------------------------------------------------
(* The methods of Resources.                                               *)

\* Cpus, Memory: the parsed value, or the default when parsing fails
\* (a missing key parses "").
Cpus(r) == LET p == ParseFloat(Get(r, "cpus")) IN IF p.err THEN Num(1000) ELSE p.f
Memory(r) == LET p == ParseFloat(Get(r, "memory")) IN IF p.err THEN Num(1000000) ELSE p.f
Ports(r) == LET p == ParseInt(Get(r, "ports")) IN IF p.err THEN 1 ELSE p.i

\* math.Abs(a - b) > 0.001: any comparison with NaN is false.
Differ(a, b) ==
  /\ ~a.nan /\ ~b.nan
  /\ (a.v - b.v > 10 \/ b.v - a.v > 10)

\* Mutant: floats compared exactly.
EqualExact(r, o) ==
  /\ Cardinality(DOMAIN r) = Cardinality(DOMAIN o)
  /\ Ports(r) = Ports(o)
  /\ Cpus(r) = Cpus(o)
  /\ Memory(r) = Memory(o)

Equal(r, o) ==
  /\ Cardinality(DOMAIN r) = Cardinality(DOMAIN o)
  /\ Ports(r) = Ports(o)
  /\ ~Differ(Cpus(r), Cpus(o))
  /\ ~Differ(Memory(r), Memory(o))

\* Mutant: the defaults of Validate out of line (memory's for ports).
ValidateSwapped(r) ==
  {[Field |-> f[1], Default |-> f[2]] :
     f \in {x \in {<<"cpus", "0.1">>, <<"memory", "100">>, <<"ports", "100">>} :
              x[1] \notin DOMAIN r}}

\* Validate / validateField: one MissingResourceFlaw per absent field.
Validate(r) ==
  {[Field |-> f[1], Default |-> f[2]] :
     f \in {x \in {<<"cpus", "0.1">>, <<"memory", "100">>, <<"ports", "1">>} :
              x[1] \notin DOMAIN r}}

\* MissingResourceFlaw.Repair: f.Resources[f.Field] = f.Default.  The flaw
\* holds the map itself, so the repair is seen by every holder of it.
Repair(r, f) == (f.Field :> f.Default) @@ r

-----------------------------------------------------------------------------

Init == res = [s \in Sides |-> <<>>]

\* A manifest edit or a scheduler report sets or drops one resource.
SetResource(s, k, v) ==
  res' = [res EXCEPT ![s] = (k :> v) @@ @]

DropResource(s, k) ==
  /\ k \in DOMAIN res[s]
  /\ res' = [res EXCEPT ![s] = Restrict(@, DOMAIN @ \ {k})]

\* The flaw machinery repairs one flaw Validate reported.
RepairFlaw(s) ==
  \E f \in Validate(res[s]) : res' = [res EXCEPT ![s] = Repair(@, f)]

Next ==
  \E s \in Sides :
    \/ \E k \in Keys, v \in CpusVals \cup MemoryVals \cup PortsVals \cup OtherVals :
         v \in ValsOf(k) /\ SetResource(s, k, v)
    \/ \E k \in Keys : DropResource(s, k)
    \/ RepairFlaw(s)

Spec == Init /\ [][Next]_res

-----------------------------------------------------------------------------
(* Properties.                                                             *)

TypeOK == res \in [Sides -> ResourceMaps]

\* What the strings mean: the same keys; cpus and memory numbers within
\* 0.001, ports the same integer, or the very same string; any other key
\* the same string.
SameFloat(a, b) ==
  \/ a = b
  \/ LET x == ParseFloat(a)  y == ParseFloat(b)
     IN  ~x.err /\ ~y.err /\ ~x.f.nan /\ ~y.f.nan /\ ~Differ(x.f, y.f)
SameInt(a, b) ==
  a = b \/ (~ParseInt(a).err /\ ~ParseInt(b).err /\ ParseInt(a).i = ParseInt(b).i)
SameResources(r, o) ==
  /\ DOMAIN r = DOMAIN o
  /\ \A k \in DOMAIN r :
       CASE k \in {"cpus", "memory"} -> SameFloat(r[k], o[k])
         [] k = "ports"              -> SameInt(r[k], o[k])
         [] OTHER                    -> r[k] = o[k]

\* Tolerant equality (spec: "semantically-identical configurations are
\* never classified as Modified"): resources that mean the same -- "1"
\* and "1.0005" cpus, "01" and "1" ports -- are Equal.
SameResourcesAreEqual ==
  SameResources(res["desired"], res["observed"]) =>
    Equal(res["desired"], res["observed"])

\* Repairing a flaw writes the default the accessors already used, so it
\* never changes the cpus, memory or ports the scheduler is given.
RepairKeepsScheduledResources ==
  [][\A s \in Sides :
       (\E f \in Validate(res[s]) : res'[s] = Repair(res[s], f)) =>
         /\ Cpus(res'[s]) = Cpus(res[s])
         /\ Memory(res'[s]) = Memory(res[s])
         /\ Ports(res'[s]) = Ports(res[s])]_res

\* The converse, and what the spec's example asks ("changing ports to 2
\* makes them unequal"): resources Equal() accepts mean the same.
EqualResourcesAreSame ==
  Equal(res["desired"], res["observed"]) =>
    SameResources(res["desired"], res["observed"])

=============================================================================
