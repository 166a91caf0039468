----------------------------- MODULE MCPMSchedules -----------------------------
EXTENDS PMSchedules

MCTemplates == {[days |-> 2, fixed |-> TRUE, hours |-> 0],
                [days |-> 3, fixed |-> TRUE, hours |-> 0],
                [days |-> 0, fixed |-> FALSE, hours |-> 10]}
MCNoRow == [status |-> "none"]
================================================================================
