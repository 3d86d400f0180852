----------------------------- MODULE MCRxcExec ------------------------------
(* Two scenes in one run: two lookups race with changes of two files, and  *)
(* one lookup meets every short command with every short template.         *)
EXTENDS RxcExec, TLC

CONSTANTS l1, l2

P(n, s, a) == [name |-> <<n>>, script |-> <<s>>, args |-> a]
T(ch) == [kind |-> "text", ch |-> ch]
A(ch) == [kind |-> "arg", ch |-> ch]

Templates ==
  {<<>>, <<T("a")>>, <<T("$")>>, <<T("$"), T("a")>>, <<A("1")>>, <<A("2")>>, <<A("@")>>, <<A("0")>>, <<A("x")>>,
   <<T("a"), A("2")>>, <<A("1"), T("a")>>, <<A("2"), A("1")>>, <<A("1"), T("$")>>, <<T("a"), A("@")>>, <<T("$"), T("$")>>, <<T("$"), A("1")>>,
   <<[kind |-> "open", ch |-> "1"]>>, <<[kind |-> "open", ch |-> "1"], A("2")>>}

Words == {<<>>, <<" ">>, <<"'">>, <<"\"">>, <<"\\">>, <<"a", " ">>, <<"\\", "\"">>}
Plain == <<"p">>
Alone == [words |-> <<Plain>>, style |-> "plain"]
MCCommands ==
  {[words |-> <<Plain, v, w>>, style |-> s] : v \in Words, w \in Words, s \in {"single", "double"}}
  \cup {[words |-> <<Plain, v, w>>, style |-> "plain"] : v \in Words \ {<<>>}, w \in Words \ {<<>>}}
  \cup {[words |-> <<Plain, v>>, style |-> s] : v \in Words, s \in {"double", "dangling", "open"}}
  \cup {[words |-> <<v>>, style |-> "double"] : v \in {<<>>, <<" ">>, <<"q">>, <<" ", "p">>}}
  \cup {Alone}

Simple == {<<>>, <<P("p", "s", None)>>, <<P("p", "t", None), P("q", "s", None)>>, <<[P("p", "s", None) EXCEPT !.script = <<>>]>>}
Templated == {<<P("p", "s", a)>> : a \in {None, <<>>} \cup {<<t>> : t \in Templates} \cup {<<<<A("2")>>, t>> : t \in {<<A("@")>>, <<A("x")>>, <<>>}}}
MCDocuments == Simple \cup Templated
MCPatterns == {<<{1}>>, <<{1}, {1, 2}>>, <<{1, 2}, BadPattern>>}

\* The scene is chosen with the patterns of the configuration.
Allowed ==
  IF rxc_profile_files = <<{1}>>
  THEN /\ file' = file /\ (recent => recent')
       /\ Cardinality({l \in Lookups : pc'[l] # "none"}) <= 1
  ELSE \A l \in Lookups : cmd'[l] \in {None, Alone}

SceneInit ==
  /\ Init
  /\ file[2].doc = <<>>
  /\ IF rxc_profile_files = <<{1}>> THEN file[1].doc \in Templated /\ throttled
                                    ELSE file[1].doc = <<P("p", "s", None)>>

LookupSymmetry == Permutations(Lookups)

SceneSpec == SceneInit /\ [][Next]_vars
=============================================================================
