----------------------------- MODULE AtomicStore -----------------------------
(***************************************************************************)
(* What a generation store promises: one durable content, which a commit   *)
(* replaces as a whole and which a crash never changes.                    *)
(***************************************************************************)
CONSTANTS Contents, Closed

VARIABLES
  durable,  \* what an open would load
  working   \* the writer's memory, Closed when there is none

avars == <<durable, working>>

\* The handle that created the store may still be open.
AInit == durable \in Contents /\ working \in {Closed, durable}

OpenStore == working = Closed /\ working' = durable /\ UNCHANGED durable

Mutate == working # Closed /\ working' \in Contents /\ UNCHANGED durable

Publish == working # Closed /\ durable' = working /\ UNCHANGED working

Lose == working' = Closed /\ UNCHANGED durable

ANext == OpenStore \/ Mutate \/ Publish \/ Lose

ASpec == AInit /\ [][ANext]_avars

=============================================================================
