---------------------------- MODULE BudgetUpkeep ----------------------------
(***************************************************************************)
(* CBudgetManager::NewBlock (src/src/masternode-budget.cpp) as the steps   *)
(* it takes, interleaved with the "mprop" handler of ProcessMessage.       *)
(* ProcessMessage holds cs_budget; NewBlock and the calls it makes take    *)
(* neither cs_budget nor the manager's cs, so a proposal message handled  *)
(* by another thread can land between any two of its steps.               *)
(*                                                                         *)
(* The state is the keys of the maps the steps touch: held proposals,      *)
(* seen proposal broadcasts and their fInvalid flags, and the keys of      *)
(* mapFinalizedBudgets.  A key of mapFinalizedBudgets that is a proposal  *)
(* hash is the default CFinalizedBudget that AddProposal's log line puts   *)
(* there (mapFinalizedBudgets[prop.GetHash()]); it has nBlockStart 0 and  *)
(* an empty name, so it is never valid.  Votes, amounts and heights are   *)
(* modelled in BudgetNode; here a proposal's validity and this node's     *)
(* masternode rank are inputs of the steps that test them.                 *)
(***************************************************************************)
EXTENDS Naturals, FiniteSets

CONSTANTS
    Props,        \* proposal hashes
    Finals,       \* finalized budget hashes (all valid at the tip)
    Own,          \* the budget SubmitFinalBudget builds
    BudgetMode,   \* strBudgetMode
    IsMasternode, \* fMasterNode
    MaxBlocks     \* blocks connected in a behaviour

ASSUME Own \in Finals /\ Props \cap Finals = {}

VARIABLES
    props,    \* keys of mapProposals
    seen,     \* keys of mapSeenMasternodeBudgetProposals
    flagged,  \* the seen broadcasts whose fInvalid is set
    finals,   \* keys of mapFinalizedBudgets (a proposal hash: a default entry)
    pc,       \* where the block-processing thread is in NewBlock
    room,     \* this masternode's nVotedTimes + VOTE_PROP_INC <= 100
    blocks    \* blocks connected so far

vars == <<props, seen, flagged, finals, pc, room, blocks>>

\* CFinalizedBudget::IsValid: a default entry fails (nBlockStart == 0).
FinalValid(f) == f \in Finals

Init ==
    /\ props = {} /\ seen = {} /\ flagged = {} /\ finals = {}
    /\ pc = "idle"
    /\ room = TRUE
    /\ blocks = 0

----------------------------------------------------------------------------
(* The message handler thread.                                             *)

\* CBudgetManager::AddProposal: a held proposal only gets the new vin, but
\* the log line before it reads mapFinalizedBudgets[hash], inserting a
\* default budget under the proposal's hash.
AddProposal(p) ==
    IF p \in props
    THEN /\ finals' = finals \cup {p}
         /\ UNCHANGED props
    ELSE /\ props' = props \cup {p}
         /\ UNCHANGED finals

\* ProcessMessage "mprop" of a valid proposal p signed by a known
\* masternode: a seen broadcast that is not fInvalid is ignored; otherwise
\* the broadcast replaces the seen entry, and unless the signer is over its
\* nVotedTimes limit ('mayAct') the proposal is added and relayed and the
\* signer charged.  When the signer is this node ('mine': its own
\* re-signed broadcast relayed back after being flagged) the charge may use
\* up this node's room.
RecvProposal(p, mayAct, mine) ==
    /\ ~(p \in seen /\ p \notin flagged)
    /\ seen' = seen \cup {p}
    /\ flagged' = flagged \ {p}
    /\ IF mayAct THEN AddProposal(p) ELSE UNCHANGED <<props, finals>>
    /\ room' \in IF mayAct /\ mine THEN {room, FALSE} ELSE {room}
    /\ UNCHANGED <<pc, blocks>>

----------------------------------------------------------------------------
(* The block-processing thread: one action per step of NewBlock.           *)

\* CheckAndRemove: invalid finalized budgets (the default entries) are
\* erased, the valid ones AutoChecked; proposals that fail IsValid at the
\* new tip ('gone') are erased.
CheckAndRemove(gone) ==
    /\ pc = "idle"
    /\ blocks < MaxBlocks
    /\ blocks' = blocks + 1
    /\ finals' = {f \in finals : FinalValid(f)}
    /\ props' = props \ gone
    /\ pc' = "submit"
    /\ UNCHANGED <<seen, flagged, room>>

\* SubmitFinalBudget, called in "suggest" mode: unless one of its early
\* returns is taken (already submitted for the cycle, too far from it, no
\* proposals: the heights BudgetNode models, here the choice 'submit'),
\* AddFinalizedBudget of the node's own budget, which is valid.
SubmitFinalBudget(submit) ==
    /\ pc = "submit"
    /\ finals' = IF BudgetMode = "suggest" /\ submit THEN finals \cup {Own}
                                                  ELSE finals
    /\ pc' = "resign"
    /\ UNCHANGED <<props, seen, flagged, room, blocks>>

\* CheckSignatureValidity: every held proposal's rebuilt broadcast has no
\* signature, so its seen entry is flagged fInvalid (the same loop over
\* finalized budgets flags mapSeenFinalizedBudgets, which no step here
\* reads).
CheckSignatureValidity == flagged' = flagged \cup (props \cap seen)

\* ResignInvalidProposals up to its proposal loop: a node that is not a
\* masternode or not in the top ranks ('top') runs CheckSignatureValidity
\* and returns; otherwise every held proposal is re-signed and, being
\* valid, replaces its seen entry with a fresh one and is relayed.  The
\* loop returns early when the counter 'r' read from this node's CMasternode
\* has no room for another item.
ResignProposals(top, r) ==
    /\ pc = "resign"
    /\ IF IsMasternode /\ top
       THEN /\ room' = r
            /\ flagged' = IF r THEN flagged \ props ELSE flagged
            /\ seen' = IF r THEN seen \cup props ELSE seen
            /\ pc' = IF r THEN "resignFinals" ELSE "periodic"
       ELSE /\ CheckSignatureValidity
            /\ pc' = "periodic"
            /\ UNCHANGED <<seen, room>>
    /\ UNCHANGED <<props, finals, blocks>>

\* The finalized-budget loop of ResignInvalidProposals: each turn first
\* returns when this node's counter has no room; an invalid budget hits
\* 'continue' without ++it2, so the loop spins on it (a step that changes
\* nothing) until a handler charges the counter; valid budgets are
\* re-signed, and as they stay valid nothing is stored.
ResignFinals ==
    /\ pc = "resignFinals"
    /\ IF room /\ \E f \in finals : ~FinalValid(f)
       THEN UNCHANGED vars
       ELSE /\ pc' = "periodic"
            /\ UNCHANGED <<props, seen, flagged, finals, room, blocks>>

\* Every 6th block DecrementVotedTimes and CleanAndRemove of every item's
\* votes (modelled in BudgetNode); then NewBlock returns.
Periodic ==
    /\ pc = "periodic"
    /\ pc' = "idle"
    /\ UNCHANGED <<props, seen, flagged, finals, room, blocks>>

NewBlockStep ==
    \/ \E gone \in SUBSET props : CheckAndRemove(gone)
    \/ \E submit \in BOOLEAN : SubmitFinalBudget(submit)
    \/ \E top, r \in BOOLEAN : ResignProposals(top, r)
    \/ ResignFinals
    \/ Periodic

Next ==
    \/ NewBlockStep
    \/ \E p \in Props, mayAct, mine \in BOOLEAN : RecvProposal(p, mayAct, mine)

\* The block-processing thread keeps running a NewBlock it has started.
Fairness == WF_vars(NewBlockStep)

Spec == Init /\ [][Next]_vars /\ Fairness

----------------------------------------------------------------------------
\* Type invariant.
TypeOK ==
    /\ props \subseteq Props /\ seen \subseteq Props /\ flagged \subseteq seen
    /\ finals \subseteq Finals \cup Props
    /\ pc \in {"idle", "submit", "resign", "resignFinals", "periodic"}
    /\ room \in BOOLEAN
    /\ blocks \in 0..MaxBlocks

\* Every NewBlock the block-processing thread starts returns: the spec's
\* maintenance hook runs to completion whatever messages the handlers
\* apply meanwhile (section 5: "once a local mutation starts it runs to
\* completion").
NewBlockReturns == (pc # "idle") ~> (pc = "idle")
=============================================================================
