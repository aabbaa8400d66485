------------------------------ MODULE MCSession ------------------------------
(* A small instance of Session: the user speaks or sends a picture; the      *)
(* models of several providers answer, with and without call ids.            *)
EXTENDS Session

MCUserTurns == {<<Text("some", NoItem)>>, <<Media("image")>>}

MCModelTurns == {
    <<Text("some", "m1"), Text("empty", "m1"), Text("some", "m2")>>,
    <<Signed("own"), Text("some", NoItem)>>,
    <<Text("some", "m1"), Call(101, "act", NoId), Text("some", "m2")>>,
    <<Signed("own"), Call(101, "act", NoId), Call(102, "look", NoId)>>,
    <<Call(NoId, "act", NoId), Call(NoId, "look", NoId)>>,
    <<Thought, Call(103, "act", NoId)>>,
    <<Call(104, "look", NoId)>>,
    <<Text("blank", NoItem), Text("some", "m2")>>,
    <<Signed("other"), Text("some", NoItem)>> }

MCPhases == [m1 |-> "commentary", m2 |-> "final_answer"]

MCCatalogue == <<"act", "search", "t1", "t2">>
==============================================================================
