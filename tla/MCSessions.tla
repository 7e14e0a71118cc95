------------------------------ MODULE MCSessions ------------------------------
(* Three sessions, two of one application, on two endpoints; two lanes. *)
EXTENDS SessionRoutes

MCAbout ==
    [s \in {"s1", "s2", "s3"} |->
        CASE s = "s1" -> [endpoint |-> "e1", pid |-> 1, app |-> "game", words |-> {"hud"}, sound |-> TRUE]
          [] s = "s2" -> [endpoint |-> "e1", pid |-> 2, app |-> "chat", words |-> {}, sound |-> TRUE]
          [] s = "s3" -> [endpoint |-> "e2", pid |-> 1, app |-> "game", words |-> {}, sound |-> TRUE]]
MCOrder == <<"s2", "s1", "s3">>
MCRunning == {{"s1"}, {"s1", "s2"}}
Rule(id, priority, app, word, lane) ==
    [id |-> id, priority |-> priority, enabled |-> TRUE, app |-> app, word |-> word,
     lane |-> lane]
MCRules == {Rule("r1", 1, "game", NoText, "l1"), Rule("r2", 1, NoText, "hud", "l2")}
===============================================================================
