---------------------------- MODULE MC_NodeAdmin ----------------------------
EXTENDS NodeAdmin

CONSTANTS h1, r1, r2, why1

\* Bodies the view answers 400: no field, and a field outside update_fields.
RejectedBodies ==
    {[pause_reason |-> Absent, is_paused |-> Absent, is_active |-> Absent, port |-> p]
        : p \in {Absent, 5051}}

\* PATCHes from a client that always states is_active, pausing, resuming or
\* leaving the pause alone, with or without a reason.
ActivationBodies ==
    {b \in Body : b.is_active # Absent /\ b.port = Absent
                  /\ b.pause_reason \in {Absent, why1}} \cup RejectedBodies

\* PATCHes that only pause or resume a node, as the UI's pause button sends.
PauseBodies ==
    {b \in Body : b.is_paused # Absent /\ b.is_active = Absent /\ b.port = Absent
                  /\ b.pause_reason = Absent}
=============================================================================
