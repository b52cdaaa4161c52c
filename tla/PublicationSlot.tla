--------------------------- MODULE PublicationSlot ---------------------------
(***************************************************************************)
(* What publication promises a reader of one logical document: the slot    *)
(* serves at most one generation, whoever switches it has itself counted   *)
(* the chunks of the new generation and found them complete, and one count *)
(* is good for one switch.  Apart from a switch the only thing that        *)
(* happens to the slot is that the document is withdrawn.  The index       *)
(* belongs to the environment.  GenerationPublication implements this.     *)
(***************************************************************************)
CONSTANTS Gens,      \* ingestion ids of the generations of the document
          NoGen,     \* "no generation": the slot serves nothing
          Requests   \* whoever may switch the slot

VARIABLES served,    \* the generation retrieval is gated on
          complete,  \* generations with exactly their sections in the index
          ticket     \* per request: the generation it has counted complete

slotVars == <<served, complete, ticket>>

Init ==
    /\ served = NoGen
    /\ complete = {}
    /\ ticket = [r \in Requests |-> NoGen]

\* r counts the chunks of g and finds all of them, maybe by its own write.
Verify(r, g) ==
    /\ complete' \subseteq Gens
    /\ g \in complete'
    /\ ticket' = [ticket EXCEPT ![r] = g]
    /\ UNCHANGED served

\* "Atomically switch the stable document slot to a verified generation."
Switch(r) ==
    /\ ticket[r] # NoGen
    /\ served' = ticket[r]
    /\ ticket' = [ticket EXCEPT ![r] = NoGen]
    /\ UNCHANGED complete

\* r gives up.
Cancel(r) == ticket' = [ticket EXCEPT ![r] = NoGen] /\ UNCHANGED <<served, complete>>

\* A deletion takes the document out of retrieval.
Withdraw == served' = NoGen /\ UNCHANGED <<complete, ticket>>

\* Chunks come and go.
IndexChange == complete' \subseteq Gens /\ UNCHANGED <<served, ticket>>

Next ==
    \/ Withdraw \/ IndexChange
    \/ \E r \in Requests : Switch(r) \/ Cancel(r) \/ \E g \in Gens : Verify(r, g)

Spec == Init /\ [][Next]_slotVars
=============================================================================
