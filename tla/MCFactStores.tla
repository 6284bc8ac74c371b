---------------------------- MODULE MCFactStores ----------------------------
(* Instances of FactStores for TLC: one user with two children. *)
EXTENDS FactStores, TLC

CONSTANTS a, b, s1, s2, t1, t2, t3, e1, e2, e3, family, grade, goal

OneOfEach == (family :> "shared") @@ (grade :> "profile") @@ (goal :> "session")

\* An answer records nothing, or one fact of each scope.
AllOrNothing == {{}, Keys}

\* One session speaks of a child, of its sibling and of none, in any order;
\* the other session is idle and has no child.
OneSession == (t1 :> s1) @@ (t2 :> s1) @@ (t3 :> s1)
Subjects == (t1 :> a) @@ (t2 :> b) @@ (t3 :> Unbound)

\* An edit of the first child's facts.
OfA == (e3 :> a)
=============================================================================
