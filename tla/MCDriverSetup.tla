---------------------------- MODULE MCDriverSetup ----------------------------
(* Instances of DriverSetup for TLC: integers of six bits. *)
EXTENDS DriverSetup

MCTimeouts == {-1, 0, 5, 20}
MCHosts == <<"h1", "h2", "h3", "h1">>
MCZones == {"", "UTC", "bad"}
MCOffsets == {0, 1}
MCDrivers == {"d1", "d2"}
MCTries == [d \in MCDrivers |-> IF d = "d1" THEN 2 ELSE 1]
MCCloses == [d \in MCDrivers |-> IF d = "d1" THEN 2 ELSE 0]
Once == [d \in MCDrivers |-> 1]
MCRequests == [d \in MCDrivers |-> IF d = "d1" THEN 0 ELSE 2]
Config(t, m, g) == [timeout |-> t, encrypt |-> m, graph |-> g, password |-> 0]
MCGiven == {Config(-1, "LDAP", ""), Config(0, "", "g"), Config(5, "MD5", "g"),
            Config(20, "NOTHING", ""), Config(0, "unknown", "")}
Plain(t) == [timeout |-> t, graph |-> "", host |-> FALSE, zone |-> "", offset |-> 0]
MCAsked == {Plain(0), Plain(5), [Plain(-1) EXCEPT !.zone = "UTC"],
            [Plain(20) EXCEPT !.zone = "UTC", !.offset = 1],
            [Plain(5) EXCEPT !.host = TRUE, !.graph = "g"],
            [Plain(0) EXCEPT !.zone = "bad"]}
=============================================================================
