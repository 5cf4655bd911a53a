--------------------------- MODULE JournalVectors ---------------------------
(***************************************************************************)
(* The vectors of a journal's semantic search (entries_vec): computed by   *)
(* embedding passes (daemon/journal_tools.rs, embed_missing) while the     *)
(* sessions write, and dropped with their entry by a trigger.  A pass      *)
(* reads its batch, encodes it, which takes seconds, and stores each       *)
(* vector in a transaction of its own.                                     *)
(***************************************************************************)
EXTENDS Journal

CONSTANT Embedders  \* embedding passes under way at once

VARIABLES
    vec,    \* entries_vec: the body a vector was computed from, by id
    batch   \* [Embedders -> the ids and bodies a pass has still to store]

journal == <<body, age, flags, links, proofs, evidenceFirst>>
vvars == <<journal, vec, batch>>

VectorsTypeOK ==
    /\ vec \in [Ids -> Bodies \cup {NoBody}]
    /\ batch \in [Embedders -> SUBSET (Ids \X Bodies)]

VInit ==
    /\ Init
    /\ vec = [i \in Ids |-> NoBody]
    /\ batch = [e \in Embedders |-> {}]

(* The trigger entries_ad: a deleted entry takes its vector along. *)
Trigger == vec' = [i \in Ids |-> IF body'[i] = NoBody THEN NoBody ELSE vec[i]]

(* A session's request, the policy, retention. *)
Request == Next /\ Trigger /\ UNCHANGED batch

Missing == {i \in Entries : vec[i] = NoBody}

(* missing_vectors, after an add, an import or a search *)
ReadMissing(e) ==
    /\ batch[e] = {} /\ Missing # {}
    /\ batch' = [batch EXCEPT ![e] = {<<i, body[i]>> : i \in Missing}]
    /\ UNCHANGED <<journal, vec>>

(* store_vector, of the next entry of the batch: nothing when it is gone *)
StoreVector(e) ==
    \E p \in batch[e] :
        /\ \A q \in batch[e] : p[1] <= q[1]
        /\ vec' = IF Exists(p[1]) THEN [vec EXCEPT ![p[1]] = p[2]] ELSE vec
        /\ batch' = [batch EXCEPT ![e] = @ \ {p}]
        /\ UNCHANGED journal

(* The encoder fails, or a store, or the daemon stops. *)
EmbedFails(e) ==
    /\ batch[e] # {}
    /\ batch' = [batch EXCEPT ![e] = {}]
    /\ UNCHANGED <<journal, vec>>

VNext == Request \/ \E e \in Embedders : ReadMissing(e) \/ StoreVector(e) \/ EmbedFails(e)

VSpec == VInit /\ [][VNext]_vvars

-----------------------------------------------------------------------------
(* No vector outlives its entry: not one that was read before the entry    *)
(* was deleted and is stored after.                                        *)
VectorHasEntry == \A i \in Ids : vec[i] # NoBody => Exists(i)

(* A vector is that of its entry's text: for an entry that was deleted     *)
(* meanwhile "there is nothing to attach the vector to" (store_vector).    *)
VectorOfItsText == \A i \in Ids : vec[i] # NoBody => vec[i] = body[i]
=============================================================================
