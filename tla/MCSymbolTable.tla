---------------------------- MODULE MCSymbolTable ----------------------------
(* Declarations around an inductive t with a constructor c, which can be     *)
(* declared at top level and in modules, again with other constructors, and  *)
(* mentioned with and without the name of a module.                          *)
EXTENDS SymbolTable

t == <<"t">>
c == <<"c">>
e == <<"e">>
Mt == <<"M", "t">>
Mc == <<"M", "c">>
nat == <<"nat">>

MCSegments == {"M", "t", "c", "d", "e", "f", "u", "nat", "O"}
MCModules == {<<"M">>}
MCExternalTypes == [n \in {nat, <<"O">>} |-> IF n = nat THEN Sort ELSE nat]
MCExternalInductives == [n \in {nat} |-> {<<"O">>}]

\* Definitions of d, and of t as something else, with at most one match
MCDefinitions ==
  {[id |-> <<"d">>, type |-> type, uses |-> {}, matches |-> matches] :
     type \in {t, Mt},
     matches \in {{}} \cup {{[value |-> v, branches |-> {b}]} : v \in {c, Mc}, b \in {c, e}}}
  \cup {[id |-> t, type |-> nat, uses |-> {<<"d">>},
         matches |-> {[value |-> <<"O">>, branches |-> {<<"O">>}]}]}

One(cons) == [id |-> t, args |-> {}, type |-> Sort, constructors |-> cons]
Con(id, type) == [id |-> id, type |-> type]

MCInductives == {
  <<One(<<Con(c, t)>>)>>,
  <<One(<<Con(e, t), Con(c, Mt)>>)>>,
  <<One(<<Con(t, t)>>)>>,
  <<[One(<<Con(c, <<"u">>)>>) EXCEPT !.args = {nat}],
    [id |-> <<"u">>, args |-> {}, type |-> Sort, constructors |-> <<Con(e, t)>>]>>}

Fn(id, arg, uses, matches) ==
  [id |-> id, arg |-> arg, type |-> arg, uses |-> uses, matches |-> matches]

MCFixpoints == {
  <<Fn(<<"f">>, t, {<<"f">>}, {{c}})>>,
  <<Fn(<<"f">>, Mt, {<<"f">>}, {{c}})>>,
  <<Fn(t, t, {Mc}, {{c}}), Fn(<<"f">>, Mt, {t}, {})>>}
==============================================================================
