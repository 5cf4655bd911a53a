------------------------------- MODULE Journal -------------------------------
(***************************************************************************)
(* One project's journal (journal.rs): numbered entries with flags, links  *)
(* between them, the branches the links make under a todo, what closes a   *)
(* work item, and retention.  The vectors are in JournalVectors.           *)
(*                                                                         *)
(* The daemon is the only writer and every operation is one transaction    *)
(* that begins with the write lock, so one action.  A refused request      *)
(* changes nothing and is no action.                                       *)
(***************************************************************************)
EXTENDS Naturals, FiniteSets, SequencesExt

CONSTANTS Bodies,        \* texts with their category: what is deduplicated
          Says,          \* the bodies long enough to be evidence
          Lasting,       \* the bodies written with salience high
          FlagsOf,       \* [Bodies -> SUBSET Flags], the flags it is written with
          NoBody,        \* no row, not in Bodies
          DedupWindow,   \* DEDUP_WINDOW_SECS, in ticks
          Ttl,           \* MEDIUM_TTL_SECS and LOW_TTL_SECS, in ticks
          BranchLimit,   \* BRANCH_LIMIT
          MaxEntries,    \* bound: ids
          MaxLinks,      \* bound: rows of entry_links
          KindsUsed,     \* bound: the kinds of links that are made
          Revised        \* bound: [Bodies -> the flags set and removed later]

Flags == {"todo", "question", "unverified", "important", "verified", "deprecated"}
WorkItems == {"todo", "question", "unverified"}
LINK_KINDS == {"cites", "replaces", "fixes", "implements", "verifies"}
STRUCTURAL == {"implements", "verifies", "fixes"}

ASSUME JournalAssumption ==
    /\ Says \in SUBSET Bodies /\ Lasting \in SUBSET Bodies
    /\ FlagsOf \in [Bodies -> SUBSET Flags] /\ NoBody \notin Bodies
    /\ DedupWindow \in Nat /\ Ttl \in Nat /\ DedupWindow <= Ttl
    /\ BranchLimit \in Nat \ {0} /\ MaxEntries \in Nat /\ MaxLinks \in Nat
    /\ KindsUsed \in SUBSET LINK_KINDS /\ Revised \in [Bodies -> SUBSET Flags]

VARIABLES
    body,           \* entries.body and category: [Ids -> Bodies \cup {NoBody}]
    age,            \* ticks since entries.created_at
    flags,          \* entry_flags: [Ids -> [Flags -> FlagStates]]
    links,          \* entry_links: set of <<from_id, to_id, kind>>
    proofs,         \* the entries with a row in entry_proofs
    evidenceFirst   \* journal_meta policy.evidence_first

vars == <<body, age, flags, links, proofs, evidenceFirst>>

Ids == 1..MaxEntries
NoId == 0
\* A work item closed on evidence or at will is "done", an abandoned one
\* "dropped": what its resolution says.
FlagStates == {"none", "open", "done", "dropped"}
Closed == {"done", "dropped"}
NoFlags == [f \in Flags |-> "none"]
Exists(i) == body[i] # NoBody
Entries == {i \in Ids : Exists(i)}

(* Links join two entries that exist, proofs and flags belong to one, and  *)
(* only work items are closed.                                             *)
JournalTypeOK ==
    /\ body \in [Ids -> Bodies \cup {NoBody}]
    /\ age \in [Ids -> 0..Ttl + 1]
    /\ flags \in [Ids -> [Flags -> FlagStates]]
    /\ links \in SUBSET (Ids \X Ids \X LINK_KINDS)
    /\ \A l \in links : Exists(l[1]) /\ Exists(l[2]) /\ l[1] # l[2]
    /\ proofs \in SUBSET Entries
    /\ evidenceFirst \in BOOLEAN
    /\ \A i \in Ids, f \in Flags :
        /\ flags[i][f] # "none" => Exists(i)
        /\ flags[i][f] \in Closed => f \in WorkItems

Init ==
    /\ body = [i \in Ids |-> NoBody]
    /\ age = [i \in Ids |-> 0]
    /\ flags = [i \in Ids |-> NoFlags]
    /\ links = {} /\ proofs = {} /\ evidenceFirst = FALSE

-----------------------------------------------------------------------------
(* What an entry is and hangs from.                                        *)

Open(i, f) == flags[i][f] = "open"
OpenItems(i) == {f \in WorkItems : Open(i, f)}
IsTodo(i) == flags[i]["todo"] # "none"

(* evidence_gap finds none *)
IsEvidence(e) ==
    /\ ~Open(e, "deprecated")
    /\ body[e] \in Says
    /\ evidenceFirst => e \in proofs

(* proof_of finds one *)
HasProof(i) == \E e \in Ids : e # i /\ <<e, i, "verifies">> \in links /\ IsEvidence(e)

Parents(i) == {p \in Ids : \E k \in STRUCTURAL : <<i, p, k>> \in links}
Children(i) == {c \in Ids : \E k \in STRUCTURAL : <<c, i, k>> \in links}

(* The first BRANCH_LIMIT entries a walk has seen. *)
Cap(s) == SubSeq(s, 1, IF Len(s) < BranchLimit THEN Len(s) ELSE BranchLimit)

(* The ids of S, ORDER BY id, the latest first or the earliest first.      *)
Listed(S, latest) ==
    CHOOSE q \in [1..Cardinality(S) -> S] :
        \A j, k \in DOMAIN q : j < k => IF latest THEN q[j] > q[k] ELSE q[j] < q[k]

(* A walk breadth first from i, from each entry on to those of next: what  *)
(* it has seen once n of them are looked at.                               *)
Steps(i, next, latest) ==
    LET walk[n \in Nat] ==
          IF n = 0 THEN <<i>>
          ELSE LET seen == walk[n - 1]
               IN  IF n > Len(seen) THEN seen
                   ELSE Cap(seen \o Listed(next[seen[n]] \ ToSet(seen), latest))
    IN  walk

Walk(i, next, latest) == Steps(i, next, latest)[MaxEntries]

(* What i hangs from, of equally near entries the later written first.     *)
Upstream(i) == Walk(i, [j \in Ids |-> Parents(j)], TRUE)

(* branch_root: the nearest todo upstream, NoId without one *)
BranchRoot(i) ==
    LET up == Upstream(i)
        todos == {k \in DOMAIN up : IsTodo(up[k])}
    IN  IF todos = {} THEN NoId ELSE up[Min(todos)]

(* Mutant: one step downstream only. *)
FirstStepOnly(root) ==
    {root} \cup {c \in Children(root) : ~IsTodo(c) /\ BranchRoot(c) = root}

(* branch_ids: the root and what hangs from it, breadth first downstream *)
BranchIds(root) ==
    ToSet(Walk(root, [j \in Ids |-> {c \in Children(j) : ~IsTodo(c) /\ BranchRoot(c) = root}],
               FALSE))

-----------------------------------------------------------------------------
(* Writing entries and links.                                              *)

(* max(rowid) + 1: a number whose entry was the last one comes back.       *)
NextId(n) == (\A i \in Entries : i < n) /\ (n = 1 \/ n - 1 \in Entries)

(* The latest entry with this body in the dedup window. *)
Twins(b) == {i \in Entries : body[i] = b /\ age[i] <= DedupWindow}

(* INSERT OR IGNORE INTO entry_flags: one already set, open or closed, is  *)
(* left as it is.                                                          *)
WithFlags(i, F) ==
    [flags EXCEPT ![i] = [f \in Flags |-> IF f \in F /\ @[f] = "none" THEN "open" ELSE @[f]]]

(* add of a note that is there already: its flags and proofs are merged. *)
AddAgain(b, proved) ==
    \E i \in Twins(b) :
        /\ \A j \in Twins(b) : j <= i
        /\ flags' = WithFlags(i, FlagsOf[b])
        /\ proofs' = proofs \cup (IF proved THEN {i} ELSE {})
        /\ UNCHANGED <<body, age, links, evidenceFirst>>

(* add: an entry whose text refers to the entries refs, those that exist *)
AddNew(b, proved, refs) ==
    /\ Twins(b) = {}
    /\ \E n \in Ids :
        /\ NextId(n)
        /\ links' = links \cup {<<n, r[1], r[2]>> : r \in {q \in refs : Exists(q[1])}}
        /\ body' = [body EXCEPT ![n] = b]
        /\ age' = [age EXCEPT ![n] = 0]
        /\ flags' = WithFlags(n, FlagsOf[b])
        /\ proofs' = proofs \cup (IF proved THEN {n} ELSE {})
    /\ UNCHANGED evidenceFirst

(* link *)
Link(from, to, kind) ==
    /\ from # to /\ Exists(from) /\ Exists(to)
    /\ links' = links \cup {<<from, to, kind>>}
    /\ UNCHANGED <<body, age, flags, proofs, evidenceFirst>>

(* unlink, of one kind *)
Unlink(l) ==
    /\ links' = links \ {l}
    /\ UNCHANGED <<body, age, flags, proofs, evidenceFirst>>

-----------------------------------------------------------------------------
(* Flags.                                                                  *)

(* mark *)
Mark(i, F) ==
    /\ Exists(i)
    /\ flags' = WithFlags(i, F)
    /\ UNCHANGED <<body, age, links, proofs, evidenceFirst>>

(* unmark: the rows go, open or closed; an open hypothesis needs its proof *)
Unmark(i, F) ==
    /\ Exists(i)
    /\ "unverified" \in F /\ Open(i, "unverified") => HasProof(i)
    /\ flags' = [flags EXCEPT ![i] = [f \in Flags |-> IF f \in F THEN "none" ELSE @[f]]]
    /\ UNCHANGED <<body, age, links, proofs, evidenceFirst>>

(* Mutant: the flag alone, whatever the entry says by now. *)
FlaggedVerified(i, items, branch) ==
    /\ "unverified" \in items => HasProof(i)
    /\ "todo" \in items => \E e \in branch \ {i} : Open(e, "verified")

(* CloseMode::Checked: a hypothesis by its own proof, a todo by a verified *)
(* entry of its branch that is evidence                                    *)
Checked(i, items, branch) ==
    /\ "unverified" \in items => HasProof(i)
    /\ "todo" \in items =>
        \E e \in branch \ {i} : Open(e, "verified") /\ IsEvidence(e)

(* Mutant: the todo's evidence is enough for every hypothesis below it. *)
SparedNever(e, f, abandon) == FALSE

(* A hypothesis of the branch without a proof stays open. *)
Spared(e, f, abandon) == f = "unverified" /\ ~abandon /\ ~HasProof(e)

(* close_with: the named items of i, with a todo those of its branch.  An  *)
(* abandoned todo or hypothesis is recorded as such.                       *)
Close(i, items, abandon) ==
    /\ Exists(i)
    /\ items \subseteq OpenItems(i) /\ items # {}
    /\ LET branch == IF "todo" \in items THEN BranchIds(i) ELSE {}
           resolution == IF abandon /\ items \cap {"todo", "unverified"} # {}
                         THEN "dropped" ELSE "done"
       IN  /\ abandon \/ Checked(i, items, branch)
           /\ flags' = [e \in Ids |-> [f \in Flags |->
                 IF \/ e = i /\ f \in items
                    \/ /\ e \in branch \ {i} /\ f \in OpenItems(e)
                       /\ ~Spared(e, f, abandon)
                 THEN resolution ELSE flags[e][f]]]
    /\ UNCHANGED <<body, age, links, proofs, evidenceFirst>>

(* reopen *)
Reopen(i, F) ==
    /\ Exists(i)
    /\ \A f \in F : flags[i][f] \in Closed
    /\ flags' = [flags EXCEPT ![i] = [f \in Flags |-> IF f \in F THEN "open" ELSE @[f]]]
    /\ UNCHANGED <<body, age, links, proofs, evidenceFirst>>

(* set_evidence_first, by the operator *)
SetPolicy ==
    /\ evidenceFirst' = ~evidenceFirst
    /\ UNCHANGED <<body, age, flags, links, proofs>>

-----------------------------------------------------------------------------
(* Deletion and retention.                                                 *)

(* Mutant: foreign keys are off. *)
WithoutCascade(gone) ==
    /\ body' = [i \in Ids |-> IF i \in gone THEN NoBody ELSE body[i]]
    /\ UNCHANGED <<age, flags, links, proofs, evidenceFirst>>

(* DELETE FROM entries: the other tables cascade.                          *)
DeleteRows(gone) ==
    /\ body' = [i \in Ids |-> IF i \in gone THEN NoBody ELSE body[i]]
    /\ age' = [i \in Ids |-> IF i \in gone THEN 0 ELSE age[i]]
    /\ flags' = [i \in Ids |-> IF i \in gone THEN NoFlags ELSE flags[i]]
    /\ links' = {l \in links : l[1] \notin gone /\ l[2] \notin gone}
    /\ proofs' = proofs \ gone
    /\ UNCHANGED evidenceFirst

(* delete *)
Delete(i) == Exists(i) /\ DeleteRows({i})

(* What holds an entry past its retention: an open flag that is not        *)
(* PASSIVE.                                                                *)
Held(i) == \E f \in WorkItems \cup {"important"} : Open(i, f)

(* gc, once a day over every journal *)
Gc ==
    LET expired == {i \in Entries : /\ body[i] \notin Lasting /\ age[i] > Ttl
                                    /\ ~Held(i)}
    IN  expired # {} /\ DeleteRows(expired)

TimePasses ==
    /\ \E i \in Entries : age[i] <= Ttl
    /\ age' = [i \in Ids |-> IF Exists(i) /\ age[i] <= Ttl THEN age[i] + 1 ELSE age[i]]
    /\ UNCHANGED <<body, flags, links, proofs, evidenceFirst>>

-----------------------------------------------------------------------------
\* A proof is looked at where there is evidence only.
WithProof(b) == IF b \in Says THEN BOOLEAN ELSE {FALSE}
References == {{}} \cup {{<<i, k>>} : i \in Ids, k \in KindsUsed}

Next ==
    \/ \E b \in Bodies : \E proved \in WithProof(b) :
          \/ AddAgain(b, proved)
          \/ \E refs \in References :
                Cardinality(links) + Cardinality(refs) <= MaxLinks /\ AddNew(b, proved, refs)
    \/ \E i, j \in Ids, k \in KindsUsed : Cardinality(links) < MaxLinks /\ Link(i, j, k)
    \/ \E l \in links : Unlink(l)
    \/ \E i \in Ids :
          \/ \E f \in Flags : Exists(i) /\ f \in Revised[body[i]] /\ (Mark(i, {f}) \/ Unmark(i, {f}))
          \/ \E items \in SUBSET WorkItems, abandon \in BOOLEAN : Close(i, items, abandon)
          \/ \E F \in SUBSET WorkItems \ {{}} : Reopen(i, F)
          \/ Delete(i)
    \/ SetPolicy
    \/ Gc
    \/ TimePasses

Spec == Init /\ [][Next]_vars

-----------------------------------------------------------------------------
(* A todo that closes as done has, among the entries whose nearest todo it *)
(* is, one that is flagged verified and is live evidence under the policy  *)
(* of that moment (prompts/rules/project-journal.md, rule 4).              *)
TodoNeedsEvidence ==
    [][\A a \in Ids :
         Open(a, "todo") /\ flags'[a]["todo"] = "done" =>
            \E e \in Ids \ {a} :
               BranchRoot(e) = a /\ Open(e, "verified") /\ IsEvidence(e)]_vars

(* An open hypothesis ends, by close, unmark or the close of its branch,   *)
(* only with a separate live entry that verifies it, unless it is          *)
(* recorded as abandoned or the whole entry goes.                          *)
UnverifiedNeedsEvidence ==
    [][\A i \in Ids :
         /\ Open(i, "unverified") /\ body'[i] # NoBody
         /\ flags'[i]["unverified"] \notin {"open", "dropped"}
         => HasProof(i)]_vars

(* When a todo closes, its branch closes with it and nothing else does.    *)
(* No work item of an entry that hangs from it stays open, but a           *)
(* hypothesis without a proof where the todo was not abandoned: the walk   *)
(* downstream reaches whatever the walk upstream attributes to it.  The    *)
(* flags of what hangs from another todo, or from none, stay.              *)
BranchClosesAlone ==
    [][\A a, e \in Ids :
         Open(a, "todo") /\ flags'[a]["todo"] \in Closed =>
            /\ BranchRoot(e) # a => flags'[e] = flags[e]
            /\ BranchRoot(e) = a /\ e # a =>
                  \A f \in OpenItems(e) :
                     \/ flags'[e][f] = flags'[a]["todo"]
                     \/ f = "unverified" /\ flags'[a]["todo"] = "done" /\ ~HasProof(e)]_vars
=============================================================================
