------------------------------- MODULE Values -------------------------------
(***************************************************************************)
(* Values of the configuration: numbers with units as Patroni reads and    *)
(* shows them and as PostgreSQL reads them, and patches of nested          *)
(* dictionaries (patroni/utils.py).                                        *)
(*                                                                         *)
(* A number is a fraction <<n, d>>, d > 0.  Units are a sequence from the  *)
(* greatest to the smallest; Ratio[i] of unit i + 1 make one of unit i.    *)
(* Every initial state is one input.                                       *)
(***************************************************************************)
EXTENDS Integers, Sequences, FiniteSets, FiniteSetsExt

CONSTANTS Families,   \* conversion tables: [units, ratio, bases: the units PostgreSQL counts in]
          Numbers,    \* fractions written in a configuration
          Multiples,  \* numbers in front of a base unit, as in 8kB
          MaxShown    \* bound: values shown

ASSUME ValuesAssumption ==
    /\ \A f \in Families : Len(f.ratio) = Len(f.units) - 1 /\ \A i \in 1..Len(f.ratio) : f.ratio[i] \in Nat \ {0, 1}
    /\ Multiples \subseteq Nat \ {0} /\ MaxShown \in Nat

VARIABLE vaIn   \* the input

-----------------------------------------------------------------------------
(***************************************************************************)
(* Numbers with units.                                                     *)
(***************************************************************************)

Times(q, r) == <<q[1] * r[1], q[2] * r[2]>>
Over(q, r) == <<q[1] * r[2], q[2] * r[1]>>

\* round(): to the nearest, a half to the even number
Rounded(q) ==
    LET down == q[1] \div q[2]
        twice == 2 * (q[1] % q[2])
    IN  IF twice < q[2] \/ (twice = q[2] /\ down % 2 = 0) THEN down ELSE down + 1

\* get_conversion_table: how many of unit j make one of unit i
Multiplier(f, i, j) ==
    IF i <= j
    THEN <<FoldSet(LAMBDA k, p : f.ratio[k] * p, 1, i..(j - 1)), 1>>
    ELSE <<1, FoldSet(LAMBDA k, p : f.ratio[k] * p, 1, j..(i - 1))>>

\* Altered form: not rounded to the next smaller unit.
ConvertUnrounded(f, q, i, m, b) == Over(Times(q, Multiplier(f, i, b)), <<m, 1>>)

\* convert_to_base_unit: q of unit i in the base unit m * b, a multiple of the next smaller unit
ConvertToBase(f, q, i, m, b) ==
    LET value == Over(Times(q, Multiplier(f, i, b)), <<m, 1>>)
        next == Multiplier(f, i + 1, b)
    IN  IF i = Len(f.units) THEN value ELSE Times(<<Rounded(Over(value, next)), 1>>, next)

\* parse_int
ParseInt(f, q, i, m, b) == Rounded(ConvertToBase(f, q, i, m, b))

\* convert_int_from_base_unit: the greatest unit that divides the value
ShownUnit(f, v, m, b) == Min({i \in 1..b : i = b \/ (v * m) % Multiplier(f, i, b)[1] = 0})
Shown(f, v, m, b) == Rounded(Over(<<v * m, 1>>, Multiplier(f, ShownUnit(f, v, m, b), b)))

\* compare_values, for an integer: pg_settings has v, the configuration q of unit i
CompareValues(f, v, q, i, m, b) == v = ParseInt(f, q, i, m, b)

\* parse_int of PostgreSQL: the base unit with its multiple is one unit of the table
PostgresReads(f, q, i, m, b) ==
    LET base(k) == Over(Multiplier(f, k, b), <<m, 1>>)
        value == Times(q, base(i))
    IN  IF i = Len(f.units)
        THEN Rounded(value)
        ELSE Rounded(Times(<<Rounded(Over(value, base(i + 1))), 1>>, base(i + 1)))

-----------------------------------------------------------------------------
(***************************************************************************)
(* Patches.  A leaf is a number, its string, or None; a dictionary maps    *)
(* some of the keys to leaves, and in a configuration to dictionaries.     *)
(***************************************************************************)

None0 == [type |-> "none", v |-> 0]
Leaves == {None0} \union [type : {"int", "str"}, v : {1, 2}]
Flat == UNION {[D -> Leaves] : D \in SUBSET {"p", "q"}}
Leaf(l) == [type |-> "leaf", leaf |-> l, dict |-> <<>>]
Nested(d) == [type |-> "dict", leaf |-> None0, dict |-> d]
VaConfigs == UNION {[D -> {Leaf(l) : l \in Leaves} \union {Nested(d) : d \in Flat}] : D \in SUBSET {"x"}}

\* str(a) == str(b)
SameText(a, b) == (a = None0) = (b = None0) /\ a.v = b.v

\* deep_compare, of dictionaries without and with nested ones
CompareFlat(c, d) == DOMAIN c = DOMAIN d /\ \A k \in DOMAIN c : SameText(c[k], d[k])

DeepCompare(c, d) ==
    /\ DOMAIN c = DOMAIN d
    /\ \A k \in DOMAIN c :
          IF c[k].type = "dict" THEN d[k].type = "dict" /\ CompareFlat(c[k].dict, d[k].dict)
          ELSE d[k].type = "leaf" /\ SameText(c[k].leaf, d[k].leaf)

\* patch_config of a dictionary without nested ones: the result, and whether it was changed
PatchFlat(c, d) ==
    LET removed == {k \in DOMAIN d : d[k] = None0}
        replaced == {k \in DOMAIN d \ removed : k \notin DOMAIN c \/ ~SameText(c[k], d[k])}
    IN  [config |-> [k \in (DOMAIN c \union DOMAIN d) \ removed |-> IF k \in replaced THEN d[k] ELSE c[k]],
         changed |-> replaced # {} \/ \E k \in removed \intersect DOMAIN c : c[k] # None0]

\* patch_config
PatchConfig(c, d) ==
    LET removed == {k \in DOMAIN d : d[k].type = "leaf" /\ d[k].leaf = None0}
        merged == {k \in DOMAIN d \intersect DOMAIN c : d[k].type = "dict" /\ c[k].type = "dict"}
        replaced == {k \in DOMAIN d \ (removed \union merged) :
                        k \notin DOMAIN c \/ c[k].type # d[k].type \/ ~SameText(c[k].leaf, d[k].leaf)}
    IN  [config |-> [k \in (DOMAIN c \union DOMAIN d) \ removed |->
                        IF k \in merged THEN Nested(PatchFlat(c[k].dict, d[k].dict).config)
                        ELSE IF k \in replaced THEN d[k] ELSE c[k]],
         changed |-> \/ replaced # {}
                     \/ \E k \in removed \intersect DOMAIN c : c[k] # Leaf(None0)
                     \/ \E k \in merged : PatchFlat(c[k].dict, d[k].dict).changed]

-----------------------------------------------------------------------------
VaNumbers == [kind : {"number"}, f : Families, m : Multiples, q : Numbers]
VaShown == [kind : {"shown"}, f : Families, m : Multiples, v : -1..MaxShown]
VaPatches == [kind : {"patch"}, c : VaConfigs, d : VaConfigs]

VaInit == vaIn \in VaNumbers \union VaShown \union VaPatches

\* A configuration is patched.
VaPatch ==
    /\ vaIn.kind = "patch"
    /\ vaIn' = [kind |-> "patched", c |-> vaIn.c, d |-> vaIn.d, new |-> PatchConfig(vaIn.c, vaIn.d)]

VaSpec == VaInit /\ [][VaPatch]_vaIn

-----------------------------------------------------------------------------
\* What Patroni shows of an integer setting (pending_restart_reason, the log) reads back as the same value: it can be
\* put in the configuration without asking for a restart.
ShownReadsBack ==
    vaIn.kind = "shown" =>
        LET f == vaIn.f
        IN  \A b \in f.bases :
                CompareValues(f, vaIn.v, <<Shown(f, vaIn.v, vaIn.m, b), 1>>, ShownUnit(f, vaIn.v, vaIn.m, b), vaIn.m, b)

\* Patroni reads a number in any unit as PostgreSQL does, if it is whole or the base unit has no multiple.
ReadsAsPostgres ==
    vaIn.kind = "number" /\ (vaIn.m = 1 \/ vaIn.q[1] % vaIn.q[2] = 0) =>
        LET f == vaIn.f
        IN  \A i \in 1..Len(f.units) : \A b \in f.bases :
                ParseInt(f, vaIn.q, i, vaIn.m, b) = PostgresReads(f, vaIn.q, i, vaIn.m, b)

\* patch_config tells that it changed a configuration exactly when it did (deep_compare), and a patch that was
\* applied changes nothing when it is applied again; a configuration has no None.
PatchTold ==
    vaIn.kind = "patched" =>
        LET whole(c) == \A k \in DOMAIN c : c[k] # Leaf(None0) /\ \A j \in DOMAIN c[k].dict : c[k].dict[j] # None0
        IN  /\ whole(vaIn.c) => vaIn.new.changed = ~DeepCompare(vaIn.c, vaIn.new.config)
            /\ ~PatchConfig(vaIn.new.config, vaIn.d).changed
=============================================================================
