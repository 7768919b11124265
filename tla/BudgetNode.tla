------------------------------ MODULE BudgetNode ------------------------------
(***************************************************************************)
(* One node's CBudgetManager (src/src/masternode-budget.cpp): the maps of  *)
(* proposals and finalized budgets with their votes, the seen-message and  *)
(* orphan-vote maps, the per-masternode action counter, the four gossip    *)
(* handlers of ProcessMessage, the NewBlock upkeep and the operator RPCs   *)
(* of src/src/rpcmasternode-budget.cpp that change budget state.           *)
(*                                                                         *)
(* Peers are an adversarial network: any correctly signed message can      *)
(* arrive at any time, again and in any order.  A message with a bad       *)
(* signature is dropped before any state changes, so it is not modelled;   *)
(* a signature is valid iff its signer is in the masternode list (mnodes). *)
(***************************************************************************)
EXTENDS BudgetCommon, FiniteSets, Functions, TLC

CONSTANTS
    MN,            \* masternode collateral inputs (CTxIn vin)
    TxOf,          \* vin.prevout.GetHash(): the key of a vote in mapVotes
    Me,            \* activeMasternode.vin of this node
    IsMasternode,  \* fMasterNode
    BudgetMode,    \* strBudgetMode: "suggest", "auto", "none" or a vin
    MainNet,       \* AutoCheck acts on about 5% of blocks (rand() % 100)
    PropOrder,     \* proposal hashes in ascending (std::map) order
    PStart, PEnd, PAmount,  \* content of each proposal, fixed by its hash
    NetFinals,     \* finalized budgets [start, pay] that peers broadcast
    VoteChoices,   \* vote choices sent (VOTE_ABSTAIN 0, YES 1, NO 2; RPC: yes|no)
    VoteTimes,     \* nTime values of votes
    VoteCap,       \* the 100 actions a masternode may take
    VotePropInc,   \* VOTE_PROP_INC: cost of a proposal or budget
    TopRanks,      \* ranks that re-sign (GetMasternodeRank <= 3)
    SubmitWindow,  \* SubmitFinalBudget waits until 100 blocks before start
    DecrementEvery,\* NewBlock decrements and cleans every 6 blocks
    StartHeight, MaxHeight,
    MyMasternodes, \* masternode.conf entries whose keys this node holds
    OperatorActive,\* whether the operator issues RPC commands
    Transient      \* masternodes that may leave and rejoin the list

VOTE_ABSTAIN == 0
VOTE_YES == 1
VOTE_NO == 2

Props == ToSet(PropOrder)
Vote == [vin : MN, prop : Props, choice : VoteChoices, time : VoteTimes]
\* A finalized budget vote; its nTime is abstracted (no choice to revise).
FVote(m, f) == [vin |-> m, fb |-> f]
Payment == [prop : Props, amount : Int]

VARIABLES
    height,        \* chainActive.Tip()->nHeight
    mnodes,        \* enabled masternodes of mnodeman (external)
    syncing,       \* IsSyncingMasternodeAssets() (external)
    proposals,     \* mapProposals: hash -> [vin, votes : txid -> Vote]
    seenProps,     \* mapSeenMasternodeBudgetProposals: hash -> [vin, fInvalid]
    seenVotes,     \* mapSeenMasternodeBudgetVotes (keyed by the vote itself)
    orphanVotes,   \* mapOrphanMasternodeBudgetVotes: proposal hash -> Vote
    finals,        \* mapFinalizedBudgets: fb -> [vin, votes, autoChecked]
    defaults,      \* proposal hashes under which mapFinalizedBudgets holds a
                   \* default-constructed CFinalizedBudget (AddProposal, line 443)
    seenFinals,    \* mapSeenFinalizedBudgets: fb -> [vin, fInvalid]
    seenFVotes,    \* mapSeenFinalizedBudgetVotes
    orphanFVotes,  \* mapOrphanFinalizedBudgetVotes: fb -> FVote
    asked,         \* askedForSourceProposalOrBudget
    votedTimes,    \* CMasternode::nVotedTimes
    submittedFinal,\* nSubmittedFinalBudget
    autoVoted      \* history: <<fb, GetBudget()>> when AutoCheck voted

vars == <<height, mnodes, syncing, proposals, seenProps, seenVotes, orphanVotes,
          finals, defaults, seenFinals, seenFVotes, orphanFVotes, asked, votedTimes,
          submittedFinal, autoVoted>>

\* std::map insert-or-assign.
Put(f, k, v) == (k :> v) @@ f

----------------------------------------------------------------------------
(* Vote tallies of CBudgetProposal.                                        *)
Count(votes, c) == Cardinality({k \in DOMAIN votes : votes[k].choice = c})
Yeas(pr) == Count(pr.votes, VOTE_YES)
Nays(pr) == Count(pr.votes, VOTE_NO)

\* Mutant of AddOrUpdateVote: the vote is keyed by the voter, not by the
\* hash of its collateral transaction.
AddOrUpdateVoteByVin(item, v) == [item EXCEPT !.votes = Put(@, v.vin, v)]

\* CBudgetProposal::AddOrUpdateVote / CFinalizedBudget::AddOrUpdateVote:
\* mapVotes[vin.prevout.GetHash()] = vote.
AddOrUpdateVote(item, v) == [item EXCEPT !.votes = Put(@, TxOf[v.vin], v)]

\* Mutant of CleanAndRemove: the SignatureValid test is inverted, so the
\* votes of listed masternodes are dropped.
CleanAndRemoveInverted(item) ==
    [item EXCEPT !.votes = Restrict(@, {k \in DOMAIN @ : @[k].vin \notin mnodes})]

\* CleanAndRemove: drop votes whose signer left the list.  The code also
\* erases mapSeen...Votes at the vin's txid, a key that map never holds.
CleanAndRemove(item) ==
    [item EXCEPT !.votes = Restrict(@, {k \in DOMAIN @ : @[k].vin \in mnodes})]
CleanAll(items) == [x \in DOMAIN items |-> CleanAndRemove(items[x])]

\* CBudgetManager::GetBudget on the held proposals (already cleaned).
NodeBudget(props, h) ==
    GetBudget(SelectSeq(PropOrder, LAMBDA p : p \in DOMAIN props),
              [p \in DOMAIN props |-> [start |-> PStart[p], end |-> PEnd[p],
                                       amount |-> PAmount[p], yeas |-> Yeas(props[p]),
                                       nays |-> Nays(props[p])]],
              Cardinality(mnodes), h)

PropValidAt(props, p, h) ==
    ProposalIsValid(Yeas(props[p]), Nays(props[p]), Cardinality(mnodes),
                    PAmount[p], PStart[p], PEnd[p], h)
FinalValidAt(f, h) == FinalizedIsValid(f.start, f.pay, h)

NewProposal(m) == [vin |-> m, votes |-> <<>>]
NewFinal(m) == [vin |-> m, votes |-> <<>>, autoChecked |-> FALSE]

\* CheckOrphanVotes: apply every orphan whose target is now known.
CheckOrphanVotes(props, fins) ==
    LET pReady == {p \in DOMAIN orphanVotes : p \in DOMAIN props}
        fReady == {f \in DOMAIN orphanFVotes : f \in DOMAIN fins}
    IN  [props   |-> [p \in DOMAIN props |->
                        IF p \in pReady THEN AddOrUpdateVote(props[p], orphanVotes[p])
                        ELSE props[p]],
         fins    |-> [f \in DOMAIN fins |->
                        IF f \in fReady THEN AddOrUpdateVote(fins[f], orphanFVotes[f])
                        ELSE fins[f]],
         orphans  |-> Restrict(orphanVotes, DOMAIN orphanVotes \ pReady),
         forphans |-> Restrict(orphanFVotes, DOMAIN orphanFVotes \ fReady)]

\* The action-counter test of ProcessMessage.
MayAct(m) == syncing \/ votedTimes[m] < VoteCap
Charge(m, n) == IF syncing THEN votedTimes ELSE [votedTimes EXCEPT ![m] = @ + n]

----------------------------------------------------------------------------
(***************************************************************************)
(* The NewBlock upkeep, step by step, on a record s of the budget state    *)
(* it touches: [props, fins, seenProps, seenFins, seenFVotes, submitted,   *)
(* autoVoted].  Every step is a function of s, so NewBlock is their     *)
(* composition, in the order of the code.                                  *)
(***************************************************************************)

\* Mutant of SubmitVote: the vote is stored without entering
\* mapSeenFinalizedBudgetVotes.
SubmitVoteUnseen(s, f) ==
    [s EXCEPT !.fins = IF f \in DOMAIN @ THEN [@ EXCEPT ![f] = AddOrUpdateVote(@, FVote(Me, f))]
                       ELSE @]

\* CFinalizedBudget::SubmitVote of this node for f: seen, relay, and
\* UpdateFinalizedBudget(vote, NULL), which never orphans.
SubmitVote(s, f) ==
    [s EXCEPT !.seenFVotes = @ \cup {FVote(Me, f)},
              !.fins = IF f \in DOMAIN @ THEN [@ EXCEPT ![f] = AddOrUpdateVote(@, FVote(Me, f))]
                       ELSE @]

\* The "auto" comparison of AutoCheck: it votes inside the loop, once the
\* first payment matches the first proposal of GetBudget (hash and the
\* requested GetAmount; payees follow from the hash).
AutoMatch(pay, budget) ==
    /\ Len(pay) >= 1
    /\ pay[1].prop = budget[1].hash
    /\ pay[1].amount = PAmount[budget[1].hash]

\* CFinalizedBudget::AutoCheck for every budget in 'acting' (masternode,
\* not yet auto-checked, and past the mainnet sampling).  GetBudget first
\* cleans the votes of every proposal.
AutoCheck(s, acting, h) ==
    LET props1 == CleanAll(s.props)
        budget == NodeBudget(props1, h)
        auto   == BudgetMode = "auto" /\ acting # {}
        voteOn == IF BudgetMode = "auto"
                  THEN {f \in acting : budget # <<>> /\ AutoMatch(f.pay, budget)}
                  ELSE {f \in acting : BudgetMode = s.fins[f].vin}
        s1 == [s EXCEPT !.props = IF auto THEN props1 ELSE @,
                        !.fins = [f \in DOMAIN @ |->
                                    [@[f] EXCEPT !.autoChecked = @ \/ f \in acting]],
                        !.autoVoted = @ \cup {<<f, budget>> : f \in IF auto THEN voteOn ELSE {}}]
    IN  [s1 EXCEPT !.seenFVotes = @ \cup {FVote(Me, f) : f \in voteOn},
                   !.fins = [f \in DOMAIN @ |->
                               IF f \in voteOn THEN AddOrUpdateVote(@[f], FVote(Me, f))
                               ELSE @[f]]]

\* Mutant of CheckAndRemove: validity is judged at the previous tip.
CheckAndRemoveStale(s, sampled, h) ==
    LET kept   == {f \in DOMAIN s.fins : FinalValidAt(f, h - 1)}
        s1     == [s EXCEPT !.fins = Restrict(@, kept), !.defaults = {}]
        acting == {f \in kept : IsMasternode /\ ~s1.fins[f].autoChecked /\ f \in sampled}
        s2     == AutoCheck(s1, acting, h)
    IN  [s2 EXCEPT !.props = Restrict(@, {p \in DOMAIN @ : PropValidAt(@, p, h - 1)})]

\* CBudgetManager::CheckAndRemove: erase invalid finalized budgets, auto-
\* check the others, then erase invalid proposals.
CheckAndRemove(s, sampled, h) ==
    LET kept   == {f \in DOMAIN s.fins : FinalValidAt(f, h)}
        s1     == [s EXCEPT !.fins = Restrict(@, kept), !.defaults = {}]
        acting == {f \in kept : IsMasternode /\ ~s1.fins[f].autoChecked /\ f \in sampled}
        s2     == AutoCheck(s1, acting, h)
    IN  [s2 EXCEPT !.props = Restrict(@, {p \in DOMAIN @ : PropValidAt(@, p, h)})]

\* CBudgetManager::AddFinalizedBudget.
AddFinalizedBudget(fins, f, m, h) ==
    IF ~FinalValidAt(f, h) THEN fins
    ELSE IF f \in DOMAIN fins THEN [fins EXCEPT ![f].vin = m]
    ELSE Put(fins, f, NewFinal(m))

\* SubmitFinalBudget: once per cycle, within SubmitWindow blocks of its
\* start, build a budget from GetBudget with the requested amounts, and
\* store, relay and vote for it whether or not it is valid.
SubmitFinalBudget(s, h) ==
    LET start  == NextCycleStart(h)
        props1 == CleanAll(s.props)
        budget == NodeBudget(props1, h)
        f      == [start |-> start,
                   pay   |-> [i \in 1..Len(budget) |->
                                [prop |-> budget[i].hash, amount |-> PAmount[budget[i].hash]]]]
        s1     == [s EXCEPT !.props = props1]
        s2     == [s1 EXCEPT !.submitted = start,
                             !.seenFins = IF f \in DOMAIN @ THEN @
                                          ELSE Put(@, f, [vin |-> Me, fInvalid |-> FALSE]),
                             !.fins = AddFinalizedBudget(@, f, Me, h)]
    IN  IF s.submitted >= start \/ start - h > SubmitWindow THEN s
        ELSE IF budget = <<>> THEN s1
        ELSE SubmitVote(s2, f)

\* CheckSignatureValidity: the broadcast rebuilt from a stored item carries
\* no signature (the copy constructors leave vchSig empty), so every held
\* item fails SignatureValid and its seen entry is flagged invalid.
CheckSignatureValidity(s) ==
    [s EXCEPT !.seenProps = [p \in DOMAIN @ |->
                               IF p \in DOMAIN s.props THEN [@[p] EXCEPT !.fInvalid = TRUE]
                               ELSE @[p]],
              !.seenFins  = [f \in DOMAIN @ |->
                               IF f \in DOMAIN s.fins THEN [@[f] EXCEPT !.fInvalid = TRUE]
                               ELSE @[f]]]

\* ResignInvalidProposals with this node at masternode rank 'rank' (-1 when
\* unknown).  A top-ranked node re-signs every held proposal that is valid
\* without votes (the rebuilt broadcast has none) into mapSeen only; the
\* finalized-budget loop changes nothing (its valid branch only logs).
ResignInvalidProposals(s, rank, h) ==
    LET resigned == {p \in DOMAIN s.props :
                        ProposalIsValid(0, 0, Cardinality(mnodes), PAmount[p], PStart[p], PEnd[p], h)}
    IN  IF ~IsMasternode \/ rank = -1 \/ rank > TopRanks THEN CheckSignatureValidity(s)
        ELSE IF votedTimes[Me] + VotePropInc > VoteCap THEN s
        ELSE [s EXCEPT !.seenProps = [p \in DOMAIN @ \cup resigned |->
                                        IF p \in resigned THEN [vin |-> Me, fInvalid |-> FALSE]
                                        ELSE @[p]]]

\* DecrementVotedTimes of CMasternodeMan (not in this source tree).
DecrementVotedTimes == [m \in MN |-> IF votedTimes[m] > 0 THEN votedTimes[m] - 1 ELSE 0]

----------------------------------------------------------------------------
(* The state NewBlock reads and writes, as a record, and back.             *)
State == [props |-> proposals, fins |-> finals, defaults |-> defaults, seenProps |-> seenProps,
          seenFins |-> seenFinals, seenFVotes |-> seenFVotes,
          submitted |-> submittedFinal, autoVoted |-> autoVoted]
SetState(s) ==
    /\ proposals' = s.props
    /\ finals' = s.fins
    /\ defaults' = s.defaults
    /\ seenProps' = s.seenProps
    /\ seenFinals' = s.seenFins
    /\ seenFVotes' = s.seenFVotes
    /\ submittedFinal' = s.submitted
    /\ autoVoted' = s.autoVoted

Init ==
    /\ height = StartHeight
    /\ mnodes = MN
    /\ syncing = TRUE
    /\ proposals = <<>> /\ seenProps = <<>> /\ seenVotes = {} /\ orphanVotes = <<>>
    /\ finals = <<>> /\ defaults = {} /\ seenFinals = <<>> /\ seenFVotes = {} /\ orphanFVotes = <<>>
    /\ asked = {}
    /\ votedTimes = [m \in MN |-> 0]
    /\ submittedFinal = 0
    /\ autoVoted = {}

\* Accepting a proposal or budget ends with CheckOrphanVotes.
ApplyOrphans(props1, fins1) ==
    LET o == CheckOrphanVotes(props1, fins1)
    IN  /\ proposals' = o.props /\ finals' = o.fins
        /\ orphanVotes' = o.orphans /\ orphanFVotes' = o.forphans

\* CBudgetManager::AddProposal: a held proposal takes the new vin, and the
\* log line's mapFinalizedBudgets[prop.GetHash()] inserts a default budget
\* under its hash; a new one is inserted.
AddProposal(p, m) ==
    IF p \in DOMAIN proposals
    THEN [props |-> [proposals EXCEPT ![p].vin = m], defaults |-> defaults \cup {p}]
    ELSE [props |-> Put(proposals, p, NewProposal(m)), defaults |-> defaults]

\* ProcessMessage "mprop" from masternode m.
RecvProposal(p, m) ==
    /\ ~(p \in DOMAIN seenProps /\ ~seenProps[p].fInvalid)
    /\ m \in mnodes
    /\ ProposalIsValid(0, 0, Cardinality(mnodes), PAmount[p], PStart[p], PEnd[p], height)
    /\ seenProps' = Put(seenProps, p, [vin |-> m, fInvalid |-> FALSE])
    /\ IF MayAct(m)
       THEN /\ ApplyOrphans(AddProposal(p, m).props, finals)
            /\ defaults' = AddProposal(p, m).defaults
            /\ votedTimes' = Charge(m, VotePropInc)
       ELSE UNCHANGED <<proposals, finals, defaults, orphanVotes, orphanFVotes, votedTimes>>
    /\ UNCHANGED <<height, mnodes, syncing, seenVotes, seenFinals, seenFVotes, asked,
                   submittedFinal, autoVoted>>

\* ProcessMessage "mvote": UpdateProposal(vote, pfrom) stores the vote, or
\* queues it as the orphan of its proposal and asks the peer once.
RecvVote(v) ==
    /\ v \notin seenVotes
    /\ v.vin \in mnodes
    /\ seenVotes' = seenVotes \cup {v}
    /\ IF MayAct(v.vin)
       THEN /\ IF v.prop \in DOMAIN proposals
               THEN /\ proposals' = [proposals EXCEPT ![v.prop] = AddOrUpdateVote(@, v)]
                    /\ UNCHANGED <<orphanVotes, asked>>
               ELSE /\ orphanVotes' = Put(orphanVotes, v.prop, v)
                    /\ asked' = asked \cup {v.prop}
                    /\ UNCHANGED proposals
            /\ votedTimes' = Charge(v.vin, 1)
       ELSE UNCHANGED <<proposals, orphanVotes, asked, votedTimes>>
    /\ UNCHANGED <<defaults, height, mnodes, syncing, seenProps, finals, seenFinals, seenFVotes,
                   orphanFVotes, submittedFinal, autoVoted>>

\* ProcessMessage "fbs" from masternode m.
RecvFinal(f, m) ==
    /\ ~(f \in DOMAIN seenFinals /\ ~seenFinals[f].fInvalid)
    /\ m \in mnodes
    /\ FinalValidAt(f, height)
    /\ seenFinals' = Put(seenFinals, f, [vin |-> m, fInvalid |-> FALSE])
    /\ IF MayAct(m)
       THEN /\ ApplyOrphans(proposals, AddFinalizedBudget(finals, f, m, height))
            /\ votedTimes' = Charge(m, VotePropInc)
       ELSE UNCHANGED <<proposals, finals, orphanVotes, orphanFVotes, votedTimes>>
    /\ UNCHANGED <<defaults, height, mnodes, syncing, seenProps, seenVotes, seenFVotes, asked,
                   submittedFinal, autoVoted>>

\* CBudgetManager::UpdateFinalizedBudget(vote, pfrom) for m's vote on f
\* from a peer: a vote for a held budget is stored; otherwise it becomes
\* the orphan of its budget and the peer is asked for the budget (once).
UpdateFinalizedBudget(m, f) ==
    IF f \in DOMAIN finals
    THEN /\ finals' = [finals EXCEPT ![f] = AddOrUpdateVote(@, FVote(m, f))]
         /\ UNCHANGED <<orphanFVotes, asked>>
    ELSE /\ orphanFVotes' = Put(orphanFVotes, f, FVote(m, f))
         /\ asked' = asked \cup {f}
         /\ UNCHANGED finals

\* ProcessMessage "fbvote" from masternode m on budget f.
RecvFinalVote(m, f) ==
    /\ FVote(m, f) \notin seenFVotes
    /\ m \in mnodes
    /\ seenFVotes' = seenFVotes \cup {FVote(m, f)}
    /\ IF MayAct(m)
       THEN /\ UpdateFinalizedBudget(m, f)
            /\ votedTimes' = Charge(m, 1)
       ELSE UNCHANGED <<finals, orphanFVotes, asked, votedTimes>>
    /\ UNCHANGED <<defaults, height, mnodes, syncing, proposals, seenProps, seenVotes, orphanVotes,
                   seenFinals, submittedFinal, autoVoted>>

\* CBudgetManager::NewBlock on the block at height + 1: CheckAndRemove,
\* SubmitFinalBudget in "suggest" mode, ResignInvalidProposals, and every
\* DecrementEvery blocks DecrementVotedTimes and CleanAndRemove of all
\* votes.  'sampled' are the budgets that pass AutoCheck's rand() test and
\* 'rank' is GetMasternodeRank of this node.
NewBlock ==
    /\ height < MaxHeight
    /\ LET h        == height + 1
           periodic == h % DecrementEvery = 0
       IN  \E sampled \in (IF MainNet THEN SUBSET DOMAIN finals ELSE {DOMAIN finals}),
              rank \in (IF Me \in mnodes THEN 1..Cardinality(mnodes) ELSE {-1}) :
             LET s1 == CheckAndRemove(State, sampled, h)
                 s2 == IF BudgetMode = "suggest" THEN SubmitFinalBudget(s1, h) ELSE s1
                 s3 == ResignInvalidProposals(s2, rank, h)
                 s4 == IF periodic THEN [s3 EXCEPT !.props = CleanAll(@), !.fins = CleanAll(@)]
                       ELSE s3
             IN  /\ height' = h
                 /\ SetState(s4)
                 /\ votedTimes' = IF periodic THEN DecrementVotedTimes ELSE votedTimes
    /\ UNCHANGED <<mnodes, syncing, seenVotes, orphanVotes, orphanFVotes, asked>>

\* The masternode list changes under the budget manager (mnodeman).
MnLeave(m) ==
    /\ m \in Transient /\ m \in mnodes
    /\ mnodes' = mnodes \ {m}
    /\ UNCHANGED <<defaults, height, syncing, proposals, seenProps, seenVotes, orphanVotes, finals,
                   seenFinals, seenFVotes, orphanFVotes, asked, votedTimes,
                   submittedFinal, autoVoted>>
MnJoin(m) ==
    /\ m \in Transient /\ m \notin mnodes
    /\ mnodes' = mnodes \cup {m}
    /\ UNCHANGED <<defaults, height, syncing, proposals, seenProps, seenVotes, orphanVotes, finals,
                   seenFinals, seenFVotes, orphanFVotes, asked, votedTimes,
                   submittedFinal, autoVoted>>

\* Masternode-asset sync completes (masternode-sync.h).
SyncDone ==
    /\ syncing
    /\ syncing' = FALSE
    /\ UNCHANGED <<defaults, height, mnodes, proposals, seenProps, seenVotes, orphanVotes, finals,
                   seenFinals, seenFVotes, orphanFVotes, asked, votedTimes,
                   submittedFinal, autoVoted>>

\* Votes signed locally: seen, relayed and UpdateProposal(vote, NULL),
\* which drops a vote for an unknown proposal instead of queueing it.
LocalVotes(vs) ==
    /\ seenVotes' = seenVotes \cup vs
    /\ proposals' = [p \in DOMAIN proposals |->
                        FoldSet(LAMBDA v, item : AddOrUpdateVote(item, v), proposals[p],
                                {v \in vs : v.prop = p})]
    /\ UNCHANGED <<defaults, height, mnodes, syncing, seenProps, orphanVotes, finals, seenFinals,
                   seenFVotes, orphanFVotes, asked, votedTimes, submittedFinal,
                   autoVoted>>

\* "mnbudget vote": this node's vin votes yes or no at time t.
RpcVote(p, c, t) ==
    /\ OperatorActive
    /\ LocalVotes({[vin |-> Me, prop |-> p, choice |-> c, time |-> t]})

\* "mnbudget vote-many": every configured masternode found in the list.
RpcVoteMany(p, c, t) ==
    /\ OperatorActive
    /\ LocalVotes({[vin |-> m, prop |-> p, choice |-> c, time |-> t] :
                      m \in MyMasternodes \cap mnodes})

\* A locally signed finalized-budget vote of each masternode in 'ms':
\* mapSeenFinalizedBudgetVotes insert, relay, and
\* UpdateFinalizedBudget(vote, NULL), which stores it only on a held budget.
LocalFVotes(ms, f) ==
    /\ seenFVotes' = seenFVotes \cup {FVote(m, f) : m \in ms}
    /\ finals' = IF f \in DOMAIN finals
                 THEN [finals EXCEPT ![f] = FoldSet(LAMBDA m, item :
                                                      AddOrUpdateVote(item, FVote(m, f)),
                                                   @, ms)]
                 ELSE finals
    /\ UNCHANGED <<defaults, height, mnodes, syncing, proposals, seenProps, seenVotes, orphanVotes,
                   seenFinals, orphanFVotes, asked, votedTimes, submittedFinal,
                   autoVoted>>

\* "mnfinalbudget vote": this node's vin votes for budget f.
RpcFinalVote(f) ==
    /\ OperatorActive
    /\ LocalFVotes({Me}, f)

\* "mnfinalbudget vote-many": every configured masternode found in the list
\* by its key votes for budget f; the others count as failed.
RpcFinalVoteMany(f) ==
    /\ OperatorActive
    /\ LocalFVotes(MyMasternodes \cap mnodes, f)

\* "mnbudget check": CheckAndRemove at the current tip.
RpcCheck ==
    /\ OperatorActive
    /\ \E sampled \in (IF MainNet THEN SUBSET DOMAIN finals ELSE {DOMAIN finals}) :
          SetState(CheckAndRemove(State, sampled, height))
    /\ UNCHANGED <<height, mnodes, syncing, seenVotes, orphanVotes, orphanFVotes, asked,
                   votedTimes>>

\* "mnbudget projection": GetBudget, which starts with CleanAndRemove of
\* every proposal (the allotments it caches are not modelled).
RpcProjection ==
    /\ OperatorActive
    /\ proposals' = CleanAll(proposals)
    /\ UNCHANGED <<defaults, height, mnodes, syncing, seenProps, seenVotes, orphanVotes, finals,
                   seenFinals, seenFVotes, orphanFVotes, asked, votedTimes,
                   submittedFinal, autoVoted>>

Next ==
    \/ \E p \in Props, m \in MN : RecvProposal(p, m)
    \/ \E v \in Vote : RecvVote(v)
    \/ \E f \in NetFinals, m \in MN : RecvFinal(f, m)
    \/ \E f \in NetFinals, m \in MN : RecvFinalVote(m, f)
    \/ NewBlock
    \/ \E m \in MN : MnLeave(m) \/ MnJoin(m)
    \/ SyncDone
    \/ \E p \in Props, c \in VoteChoices \cap {VOTE_YES, VOTE_NO}, t \in VoteTimes :
          RpcVote(p, c, t) \/ RpcVoteMany(p, c, t)
    \/ \E f \in NetFinals : RpcFinalVote(f) \/ RpcFinalVoteMany(f)
    \/ RpcCheck
    \/ RpcProjection

Spec == Init /\ [][Next]_vars

----------------------------------------------------------------------------
AnyVote == [vin : MN, prop : Props, choice : VoteChoices \cup {VOTE_YES, VOTE_NO},
            time : VoteTimes]
FinalRecord == [start : Nat, pay : Seq(Payment)]
SeenEntry == [vin : MN, fInvalid : BOOLEAN]

NoChoice == -1   \* VoteRegister's NoVote

\* Refinement mapping: the choice counted for masternode m on a held
\* proposal p is that of the vote mapVotes holds under m's key
\* vin.prevout.GetHash(), when that vote is m's.
PropReg ==
    [p \in Props |-> [m \in MN |->
        IF /\ p \in DOMAIN proposals
           /\ TxOf[m] \in DOMAIN proposals[p].votes
           /\ proposals[p].votes[TxOf[m]].vin = m
        THEN proposals[p].votes[TxOf[m]].choice
        ELSE NoChoice]]

PropRegister == INSTANCE VoteRegister
    WITH Targets <- Props, Voters <- MN, Values <- VoteChoices \cup {VOTE_YES, VOTE_NO},
         live <- DOMAIN proposals, members <- mnodes, reg <- PropReg

\* Type invariant of the manager's maps; nVotedTimes never goes negative
\* (DecrementVotedTimes stops at zero).
TypeOK ==
    /\ height \in StartHeight..MaxHeight
    /\ mnodes \subseteq MN
    /\ syncing \in BOOLEAN
    /\ \A p \in DOMAIN proposals :
          /\ p \in Props /\ proposals[p].vin \in MN
          /\ \A k \in DOMAIN proposals[p].votes :
                proposals[p].votes[k] \in AnyVote /\ k = TxOf[proposals[p].votes[k].vin]
    /\ \A p \in DOMAIN seenProps : p \in Props /\ seenProps[p] \in SeenEntry
    /\ seenVotes \subseteq AnyVote
    /\ \A p \in DOMAIN orphanVotes : orphanVotes[p] \in Vote /\ orphanVotes[p].prop = p
    /\ \A f \in DOMAIN finals :
          /\ f \in FinalRecord /\ finals[f].vin \in MN /\ finals[f].autoChecked \in BOOLEAN
          /\ \A k \in DOMAIN finals[f].votes :
                finals[f].votes[k].fb = f /\ k = TxOf[finals[f].votes[k].vin]
    /\ defaults \subseteq Props
    /\ \A f \in DOMAIN seenFinals : f \in FinalRecord /\ seenFinals[f] \in SeenEntry
    /\ \A f \in DOMAIN orphanFVotes : orphanFVotes[f].fb = f
    /\ votedTimes \in [MN -> Nat]
    /\ submittedFinal \in Nat

\* The held registries are valid at the tip: every path that inserts a
\* proposal or finalized budget tests IsValid first (AddFinalizedBudget even
\* for the node's own SubmitFinalBudget), and NewBlock's CheckAndRemove
\* prunes what the new tip makes invalid, so GetBudget, AutoCheck and the
\* payout code never meet an expired proposal or a budget whose start has
\* passed.  The exception is the default-constructed CFinalizedBudget that
\* AddProposal's log line (443) puts under the hash of a re-accepted
\* proposal: it is never valid, and it must stand only under a proposal
\* still held, i.e. the CheckAndRemove that drops the proposal drops it too.
RegistriesValid ==
    /\ \A p \in DOMAIN proposals : PropValidAt(proposals, p, height)
    /\ \A f \in DOMAIN finals : FinalValidAt(f, height)
    /\ defaults \subseteq DOMAIN proposals

\* What the node counts it can also serve: every held proposal and every
\* budget received or built (not the default entries of 'defaults', which
\* have no broadcast) has its broadcast in mapSeen..., and every stored vote (from a peer, an
\* orphan, AutoCheck, SubmitFinalBudget or an RPC) is in mapSeen...Votes,
\* which is what Sync sends to a peer asking with "mnvs".
StoredItemsServed ==
    /\ \A p \in DOMAIN proposals :
          /\ p \in DOMAIN seenProps
          /\ \A k \in DOMAIN proposals[p].votes : proposals[p].votes[k] \in seenVotes
    /\ \A f \in DOMAIN finals :
          /\ f \in DOMAIN seenFinals
          /\ \A k \in DOMAIN finals[f].votes : finals[f].votes[k] \in seenFVotes

\* Orphan resolution (spec section 8): a vote received before its proposal
\* ends as if it had arrived after it.  With no rate limit and no list
\* churn, every accepted vote whose proposal is held is counted for its
\* voter.  UpdateProposal keeps one orphan per proposal hash, so a second
\* early vote replaces the first, which stays in mapSeen and is never
\* accepted again.
SeenVotesCounted ==
    \A v \in seenVotes :
        v.prop \in DOMAIN proposals =>
            \E k \in DOMAIN proposals[v.prop].votes : proposals[v.prop].votes[k].vin = v.vin

\* AutoCheck votes only for exact matches (spec 4.2, and the comment in
\* the code): the budget it votes for lists exactly the proposals of its
\* own GetBudget, in order, with the same amounts.
AutoVoteExact ==
    \A fb \in autoVoted :
        /\ Len(fb[1].pay) = Len(fb[2])
        /\ \A i \in 1..Len(fb[2]) :
               fb[1].pay[i].prop = fb[2][i].hash /\ fb[1].pay[i].amount = PAmount[fb[2][i].hash]

\* The proposal vote maps implement the one-vote-per-masternode register:
\* AddOrUpdateVote in the gossip, orphan and RPC paths changes only the
\* voting masternode's vote, and only CheckAndRemove and CleanAndRemove
\* (for masternodes that left the list) erase one.  mapVotes is keyed by
\* vin.prevout.GetHash(), so this needs distinct collateral transactions.
PropVotesRefine == PropRegister!Spec
=============================================================================
