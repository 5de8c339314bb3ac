---------------------------- MODULE MCProfileDb ----------------------------
(* ProfileDb on small instances.                                           *)
EXTENDS ProfileDb

CONSTANTS p0, p1

Profile(port, prio, reason, pattern) ==
    [port |-> port, prio |-> prio, reason |-> reason, pattern |-> pattern]

(* On every port, urgent, for a pattern; on one, for a reason; for all.    *)
MCProfiles == { Profile(AnyPort, 0, AnyValue, "x"),
                Profile(p0, 1, "r", AnyValue),
                Profile(AnyPort, 2, AnyValue, AnyValue) }

Packet(port, reason, pattern) ==
    [port |-> port, reason |-> reason, pattern |-> pattern]

MCPackets == { Packet(p0, "r", "y"), Packet(p0, "s", "x") }
=============================================================================
