------------------------------ MODULE MCSchema ------------------------------
(* A small upstream for Schema: two services, the three files they need, and *)
(* one deployment that moves a service and a type from one file to another.  *)
EXTENDS Schema

CONSTANTS a, b, c, s1, s2, t, refresh, reload, r1

\* What holds before the deployment, and what after it.
Deployed(before, after) == [v \in Versions |-> IF v = 0 THEN before ELSE after]
PerFile(ofA, ofB, ofC) == (a :> ofA) @@ (b :> ofB) @@ (c :> ofC)

\* At first s1 is in a, which imports c and b, and refers to a type of c; s2 is in c.
\* Then c is gone, what it had is in b, and a imports b alone.
ListedOf == [v \in Versions |-> <<s1, s2>>]
DefinedIn == Deployed((s1 :> a) @@ (s2 :> c), (s1 :> a) @@ (s2 :> b))
Imports == Deployed(PerFile(<<c, b>>, <<>>, <<>>), PerFile(<<b>>, <<>>, <<>>))
TypesOf == Deployed(PerFile({}, {}, {t}), PerFile({}, {t}, {}))
RefersTo == [v \in Versions |-> PerFile({t}, {}, {})]
ByName == <<a, b, c>>

\* a alone, or after its imports.
AnyAnswer ==
  LET whole(ofA) == (s1 :> ofA) @@ (a :> ofA) @@ (b :> {<<b>>}) IN
  Deployed(whole({<<a>>, <<b, c, a>>}) @@ (s2 :> {<<c>>}) @@ (c :> {<<c>>}),
           whole({<<a>>, <<b, a>>}) @@ (s2 :> {<<b>>}))
=============================================================================
