------------------------ MODULE MCProjectTransition ------------------------
(* Two projects, an owner, a coordinator and a student who sees one of them. *)
EXTENDS ProjectTransition, TLC

CONSTANTS p1, p2, owner, coord, learner

MCProjects == {p1, p2}
MCUsers == {owner, coord, learner}
MCRoleOf == owner :> "client_owner" @@ coord :> "coordinator" @@ learner :> "student"
MCAccess == {<<owner, p1>>, <<owner, p2>>, <<coord, p1>>, <<coord, p2>>, <<learner, p1>>}
KeySymmetry == Permutations(Keys)
=============================================================================
