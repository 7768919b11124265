----------------------------- MODULE BudgetSync -----------------------------
(***************************************************************************)
(* Budget gossip between nodes (src/src/masternode-budget.cpp): the        *)
(* "mprop"/"fbs" and "mvote"/"fbvote" handlers of ProcessMessage, the      *)
(* orphan-vote queue with its one "mnvs" request per hash, the "mnvs"      *)
(* handler with its fulfilled-request limit, and CBudgetManager::Sync.     *)
(*                                                                         *)
(* Proposals and finalized budgets are both targets; a vote is a voter and *)
(* a target.  Signatures, validity and the rate limit are modelled in      *)
(* BudgetNode: here every message is valid and every signer may act.       *)
(* Relay() sends an inv to every peer, which fetches what it has not seen; *)
(* a peer that is not connected, or whose fetch fails, misses it, so a     *)
(* relay reaches any subset of the peers.  What Sync pushes on a           *)
(* connection is delivered.                                                *)
(***************************************************************************)
EXTENDS FiniteSets

CONSTANTS
    Nodes,       \* nodes of the network
    Voters,      \* masternodes that vote
    Props,       \* proposal hashes
    Finals,      \* finalized budget hashes
    LocalPeers,  \* nodes whose address IsRFC1918() or IsLocal() to the others
    Home,        \* m -> the node holding masternode m's key, where its votes are signed
    Zero,        \* uint256 0: the unscoped "mnvs" request
    NoVoter      \* an empty orphan slot

Targets == Props \cup Finals

Msg == [type : {"item"}, src : Nodes, dst : Nodes, t : Targets]
  \cup [type : {"vote"}, src : Nodes, dst : Nodes, t : Targets, m : Voters]
  \cup [type : {"mnvs"}, src : Nodes, dst : Nodes, t : Targets \cup {Zero}]

VARIABLES
    held,       \* n -> keys of mapProposals and mapFinalizedBudgets (= mapSeen...)
    seenV,      \* n -> mapSeenMasternodeBudgetVotes / ...FinalizedBudgetVotes
    counted,    \* n -> t -> voters in the target's mapVotes
    orphan,     \* n -> t -> voter of mapOrphan...Votes[t], or NoVoter
    asked,      \* n -> askedForSourceProposalOrBudget
    fulfilled,  \* n -> peers whose "mnvs" n has fulfilled
    msgs,       \* messages in flight
    synced      \* n -> peers n sent its full "mnvs" request to

vars == <<held, seenV, counted, orphan, asked, fulfilled, msgs, synced>>

ItemMsg(s, d, t) == [type |-> "item", src |-> s, dst |-> d, t |-> t]
VoteMsg(s, d, v) == [type |-> "vote", src |-> s, dst |-> d, t |-> v.t, m |-> v.m]

\* Relay() of message m, reaching the peers in S.
Relay(S, m) == {[m EXCEPT !.dst = d] : d \in S}

Peers(n) == Nodes \ {n}

\* Mutant of CheckOrphanVotes: every slot of a held target is applied
\* without testing that it holds a vote.
CheckOrphanVotesUnchecked(n, H) ==
    /\ counted' = [counted EXCEPT ![n] = [t \in Targets |->
                      IF t \in H THEN counted[n][t] \cup {orphan[n][t]} ELSE counted[n][t]]]
    /\ orphan' = [orphan EXCEPT ![n] = [t \in Targets |->
                      IF t \in H THEN NoVoter ELSE orphan[n][t]]]

\* CheckOrphanVotes at n, whose held targets are now H: every orphan whose
\* target is held is applied through UpdateProposal/UpdateFinalizedBudget
\* and erased; the others stay.
CheckOrphanVotes(n, H) ==
    /\ counted' = [counted EXCEPT ![n] = [t \in Targets |->
                      IF t \in H /\ orphan[n][t] # NoVoter
                      THEN counted[n][t] \cup {orphan[n][t]} ELSE counted[n][t]]]
    /\ orphan' = [orphan EXCEPT ![n] = [t \in Targets |->
                      IF t \in H THEN NoVoter ELSE orphan[n][t]]]

\* Mutant of Sync: the finalized-budget loops send only on a matching
\* scope, so a full request gets no finalized budget.
SyncFinalsScopedOnly(n, scope, hit) ==
    LET all  == scope = Zero
    IN  [items |-> {t \in held[n] \cap Props : all \/ t = scope}
                   \cup {t \in held[n] \cap Finals : hit},
         votes |-> {v \in seenV[n] : v.t \in held[n] /\ (all \/ hit)}]

\* CBudgetManager::Sync(pfrom, nProp) at n: the proposals seen and held
\* that match the scope, then the seen votes, finalized budgets and their
\* votes whose target is held.  The last three loops test (*it1).first ==
\* nProp after the first loop has run it1 to end(): on a scoped request
\* that reads past the map, and 'hit' is whatever that comparison yields.
Sync(n, scope, hit) ==
    LET all  == scope = Zero
        rest == all \/ hit
    IN  [items |-> {t \in held[n] \cap Props : all \/ t = scope}
                   \cup {t \in held[n] \cap Finals : rest},
         votes |-> {v \in seenV[n] : v.t \in held[n] /\ rest}]

Init ==
    /\ held = [n \in Nodes |-> {}]
    /\ seenV = [n \in Nodes |-> {}]
    /\ counted = [n \in Nodes |-> [t \in Targets |-> {}]]
    /\ orphan = [n \in Nodes |-> [t \in Targets |-> NoVoter]]
    /\ asked = [n \in Nodes |-> {}]
    /\ fulfilled = [n \in Nodes |-> {}]
    /\ msgs = {}
    /\ synced = [n \in Nodes |-> {}]

\* A proposal submitted by RPC ("mnbudget submit") or the node's own
\* finalized budget (SubmitFinalBudget, which every node in "suggest" mode
\* builds identically): seen insert, Relay(), then the add, without
\* CheckOrphanVotes.  A proposal hash is submitted once.
Submit(n, t, S) ==
    /\ t \notin held[n]
    /\ t \in Props => \A x \in Nodes : t \notin held[x]
    /\ held' = [held EXCEPT ![n] = @ \cup {t}]
    /\ msgs' = msgs \cup Relay(S, ItemMsg(n, n, t))
    /\ UNCHANGED <<seenV, counted, orphan, asked, fulfilled, synced>>

\* A vote signed at n ("mnbudget vote", AutoCheck, SubmitVote): seen
\* insert, Relay(), and UpdateProposal(vote, NULL), which drops a vote for
\* an unknown target.  The RPC signs for any hash it is given.
Cast(n, m, t, S) ==
    /\ n = Home[m]
    /\ [m |-> m, t |-> t] \notin seenV[n]
    /\ seenV' = [seenV EXCEPT ![n] = @ \cup {[m |-> m, t |-> t]}]
    /\ counted' = IF t \in held[n] THEN [counted EXCEPT ![n][t] = @ \cup {m}] ELSE counted
    /\ msgs' = msgs \cup Relay(S, VoteMsg(n, n, [m |-> m, t |-> t]))
    /\ UNCHANGED <<held, orphan, asked, fulfilled, synced>>

\* "mprop" / "fbs" at n: a target already seen (and not invalid) is
\* ignored; otherwise it is added, relayed, and CheckOrphanVotes runs.
RecvItem(msg, S) ==
    LET n == msg.dst IN
    /\ msg.type = "item"
    /\ IF msg.t \in held[n]
       THEN /\ msgs' = msgs \ {msg}
            /\ UNCHANGED <<held, counted, orphan>>
       ELSE /\ held' = [held EXCEPT ![n] = @ \cup {msg.t}]
            /\ msgs' = (msgs \ {msg}) \cup Relay(S, ItemMsg(n, n, msg.t))
            /\ CheckOrphanVotes(n, held'[n])
    /\ UNCHANGED <<seenV, asked, fulfilled, synced>>

\* "mvote" / "fbvote" at n: a seen vote is ignored; otherwise it is seen,
\* UpdateProposal(vote, pfrom) counts it or makes it the orphan of its
\* target (overwriting the slot) and asks pfrom with "mnvs" once per hash,
\* and the vote is relayed.
RecvVote(msg, S) ==
    LET n == msg.dst
        v == [m |-> msg.m, t |-> msg.t]
        ask == msg.t \notin held[n] /\ msg.t \notin asked[n]
    IN  /\ msg.type = "vote"
        /\ IF v \in seenV[n]
           THEN /\ msgs' = msgs \ {msg}
                /\ UNCHANGED <<seenV, counted, orphan, asked>>
           ELSE /\ seenV' = [seenV EXCEPT ![n] = @ \cup {v}]
                /\ IF msg.t \in held[n]
                   THEN /\ counted' = [counted EXCEPT ![n][msg.t] = @ \cup {msg.m}]
                        /\ UNCHANGED orphan
                   ELSE /\ orphan' = [orphan EXCEPT ![n][msg.t] = msg.m]
                        /\ UNCHANGED counted
                /\ asked' = IF ask THEN [asked EXCEPT ![n] = @ \cup {msg.t}] ELSE asked
                /\ msgs' = (msgs \ {msg})
                           \cup Relay(S, VoteMsg(n, n, v))
                           \cup (IF ask THEN {[type |-> "mnvs", src |-> n, dst |-> msg.src,
                                               t |-> msg.t]}
                                 ELSE {})
        /\ UNCHANGED <<held, fulfilled, synced>>

\* "mnvs" at n from peer p: a non-local peer that was served before is
\* refused (Misbehaving); otherwise the request is marked fulfilled and
\* Sync pushes its answer to p.
RecvSyncRequest(msg, hit) ==
    LET n == msg.dst
        p == msg.src
        out == Sync(n, msg.t, hit)
    IN  /\ msg.type = "mnvs"
        /\ IF p \notin LocalPeers /\ p \in fulfilled[n]
           THEN /\ msgs' = msgs \ {msg}
                /\ UNCHANGED fulfilled
           ELSE /\ fulfilled' = [fulfilled EXCEPT ![n] = @ \cup {p}]
                /\ msgs' = (msgs \ {msg})
                           \cup {ItemMsg(n, p, t) : t \in out.items}
                           \cup {VoteMsg(n, p, v) : v \in out.votes}
        /\ UNCHANGED <<held, seenV, counted, orphan, asked, synced>>

\* The budget stage of masternode-sync asks each peer once for everything.
RequestSync(n, p) ==
    /\ p \notin synced[n]
    /\ synced' = [synced EXCEPT ![n] = @ \cup {p}]
    /\ msgs' = msgs \cup {[type |-> "mnvs", src |-> n, dst |-> p, t |-> Zero]}
    /\ UNCHANGED <<held, seenV, counted, orphan, asked, fulfilled>>

Receive(msg) ==
    /\ msg \in msgs
    /\ \/ \E S \in SUBSET Peers(msg.dst) : RecvItem(msg, S) \/ RecvVote(msg, S)
       \/ \E hit \in BOOLEAN : RecvSyncRequest(msg, hit)

Next ==
    \/ \E n \in Nodes, t \in Targets, S \in SUBSET Nodes : S \subseteq Peers(n) /\ Submit(n, t, S)
    \/ \E n \in Nodes, m \in Voters, t \in Targets, S \in SUBSET Nodes :
          S \subseteq Peers(n) /\ Cast(n, m, t, S)
    \/ \E n, p \in Nodes : n # p /\ RequestSync(n, p)
    \/ \E msg \in msgs : Receive(msg)

\* The message-handling thread keeps processing while a message waits.
\* Every variable only grows and each message is consumed, so the model
\* has no cycle of steps, and this makes every waiting message processed.
Fairness == WF_vars(\E msg \in msgs : Receive(msg))

Spec == Init /\ [][Next]_vars /\ Fairness

----------------------------------------------------------------------------
\* Type invariant.
TypeOK ==
    /\ held \in [Nodes -> SUBSET Targets]
    /\ seenV \in [Nodes -> SUBSET [m : Voters, t : Targets]]
    /\ counted \in [Nodes -> [Targets -> SUBSET Voters]]
    /\ orphan \in [Nodes -> [Targets -> Voters \cup {NoVoter}]]
    /\ asked \in [Nodes -> SUBSET Targets]
    /\ fulfilled \in [Nodes -> SUBSET Nodes]
    /\ msgs \subseteq Msg
    /\ synced \in [Nodes -> SUBSET Nodes]

\* The full "mnvs" request of n is waiting at p.
FullRequest(n, p) == [type |-> "mnvs", src |-> n, dst |-> p, t |-> Zero] \in msgs

\* The budget stage of masternode-sync brings a node up to date with its
\* peer: every proposal and finalized budget the peer holds when n's full
\* request reaches it is eventually held by n, through Sync's answer (the
\* "mnvs" handler, the four loops of Sync and "mprop"/"fbs" at n).  This is
\* asked of the nodes the "mnvs" handler never refuses (local to their
\* peers); a non-local node whose orphan vote already made it ask the peer
\* is refused, and the hazard at line 801 is about that.
FullSyncDelivers ==
    \A n \in LocalPeers : \A p \in Peers(n), t \in Targets :
        (FullRequest(n, p) /\ t \in held[p]) ~> t \in held[n]
=============================================================================
