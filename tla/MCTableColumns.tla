--------------------------- MODULE MCTableColumns ---------------------------
(***************************************************************************)
(* Instances of TableColumns: tables of up to three columns, of all types  *)
(* and attributes the comparison tells apart.                              *)
(***************************************************************************)
EXTENDS TableColumns

MCSequenceDefaults == {"s1", "s2"}
MCSearchItems == {"i1", "i2"}

Number(p, s) == [base |-> "NUMBER", val1 |-> p, val2 |-> s]
Varchar(n) == [base |-> "VARCHAR", val1 |-> n, val2 |-> 0]
Date == [base |-> "DATE", val1 |-> 0, val2 |-> 0]

Column(n) == [name |-> n, type |-> Number(9, 2), not_null |-> FALSE, default |-> None,
              expression |-> None, collate |-> None, comment |-> None]
Columns(names) == [i \in DOMAIN names |-> Column(names[i])]
AB == Columns(<< "a", "b" >>)

Plain == [is_transient |-> FALSE, retention |-> AnyRetention, cluster |-> None,
          tracking |-> FALSE, comment |-> None]
Declare(cols) == [columns |-> cols, options |-> Plain, search |-> {"no"}, keys |-> {}]

\* Some of the columns, in several orders.
Orders ==
  << Declare(Columns(<<"a">>)), Declare(Columns(<<"b">>)), Declare(Columns(<<"c">>)),
     Declare(AB), Declare(Columns(<<"b", "a">>)), Declare(Columns(<<"c", "b">>)),
     Declare(Columns(<<"a", "b", "c">>)), Declare(Columns(<<"a", "c", "b">>)),
     Declare(Columns(<<"b", "c", "a">>)) >>

Key(kind, cols) == [kind |-> kind, columns |-> cols]
WithKeys(d, ks) == [d EXCEPT !.keys = ks]
Keyed ==
  << WithKeys(Declare(AB), {Key("primary", {"a"})}),
     WithKeys(Declare(AB), {Key("primary", {"a", "b"})}),
     WithKeys(Declare(AB), {Key("unique", {"a"}), Key("unique", {"b"})}),
     WithKeys(Declare(AB), {Key("primary", {"b"}), Key("foreign", {"b"})}),
     WithKeys(Declare(AB), {Key("unique", {"a", "b"}), Key("foreign", {"a"})}),
     WithKeys(Declare(Columns(<<"a">>)), {Key("primary", {"a"}), Key("foreign", {"a"})}),
     WithKeys(Declare(Columns(<<"b", "c">>)), {Key("primary", {"b"}), Key("unique", {"b", "c"})}),
     WithKeys(Declare(Columns(<<"b", "a">>)), {Key("primary", {"a"})}) >>

\* One column is different.
Retyped(t) == Declare([AB EXCEPT ![2].type = t])
Defaulted(d) == Declare([AB EXCEPT ![2].default = d])
Virtual == Declare([AB EXCEPT ![2].expression = "e"])
Attributes ==
  << Virtual, Declare([AB EXCEPT ![2].expression = "f"]),
     Declare([AB EXCEPT ![1].expression = "e", ![2].comment = "x"]),
     Retyped(Number(9, 3)), Retyped(Number(4, 2)), Retyped(Number(3, 3)), Retyped(Number(5, 3)),
     Retyped(Varchar(5)), Retyped(Varchar(9)), Retyped(Date),
     Defaulted("1"), Defaulted("2"), Defaulted("s1"), Defaulted("s2"),
     Declare([AB EXCEPT ![1].not_null = TRUE, ![2].comment = "x"]),
     Declare([AB EXCEPT ![2].not_null = TRUE, ![2].default = "1"]),
     Declare([AB EXCEPT ![2].collate = "en"]) >>

\* Something else of the table is.
With(o) == [Declare(AB) EXCEPT !.options = o]
Searched(s) == [Declare(AB) EXCEPT !.search = s]
OptionsAndSearch ==
  << With([Plain EXCEPT !.is_transient = TRUE]), With([Plain EXCEPT !.retention = 1]),
     With([Plain EXCEPT !.retention = 2, !.comment = "x"]),
     With([Plain EXCEPT !.cluster = "k", !.tracking = TRUE]),
     Searched({"yes"}), Searched({"i1"}), Searched({"i1", "i2"}), Searched({"i2"}),
     [Searched({"i1"}) EXCEPT !.options.is_transient = TRUE] >>

MCBlueprints == Orders \o Keyed \o Attributes \o OptionsAndSearch

\* The table of each blueprint, with rows, and no table.
TableOf(b) ==
  [columns |-> [i \in DOMAIN b.columns |->
                  b.columns[i] @@ [data |-> IF b.columns[i].expression = None THEN "rows" ELSE "computed"]],
   options |-> [b.options EXCEPT !.retention = IF @ = AnyRetention THEN DefaultRetention ELSE @],
   search |-> CASE b.search = {"no"} -> {} [] b.search = {"yes"} -> MCSearchItems [] OTHER -> b.search,
   keys |-> b.keys]
NoTable == [columns |-> << >>, options |-> [Plain EXCEPT !.retention = DefaultRetention], search |-> {}, keys |-> {}]
MCTables == [i \in DOMAIN MCBlueprints |-> TableOf(MCBlueprints[i])] \o << NoTable >>

Apply(b, unsafe, replace) == [bp |-> b, unsafe |-> unsafe, replace_table |-> replace, plan |-> FALSE]
Full(b) == Apply(b, TRUE, TRUE)
Plan(b) == [Full(b) EXCEPT !.plan = TRUE]
Firsts(b) == {Apply(b, u, r) : u \in BOOLEAN, r \in BOOLEAN} \cup {Plan(b)}

\* Any table becomes any other, with each of the switches or without, with a
\* failure or a crash anywhere, and then with all switches, twice; and tables
\* with keys are on their way to another order of columns first.
MCScenarios ==
  {[table |-> t, commands |-> << c, Full(c.bp), Full(c.bp) >>, maxFaults |-> 1] :
     t \in DOMAIN MCTables, c \in UNION {Firsts(b) : b \in DOMAIN MCBlueprints}}
  \cup {[table |-> t, commands |-> << Apply(a, u, TRUE), Full(b), Full(b) >>, maxFaults |-> 1] :
          u \in BOOLEAN, a \in 1..Len(Orders), t \in (Len(Orders) + 1)..Len(Orders \o Keyed),
          b \in (Len(Orders) + 1)..(Len(Orders \o Keyed) + 1)}

\* The precision of a column changes.
NumberBlueprints == [i \in 1..4 |-> Retyped(Number(i + 1, 2))]
NumberTables == [i \in 1..4 |-> TableOf(NumberBlueprints[i])]
PrecisionScenarios ==
  {[table |-> t, commands |-> << Full(b) >>, maxFaults |-> 0] : t \in 1..4, b \in 1..4}
=============================================================================
