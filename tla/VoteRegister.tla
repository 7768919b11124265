---------------------------- MODULE VoteRegister ----------------------------
(***************************************************************************)
(* What the vote maps of the budget promise (spec 4.1, 4.3, section 5:     *)
(* "last applied wins per (voter id, target)"): every live target holds,   *)
(* for each voter, at most the last vote applied for that voter.  A vote   *)
(* changes only its own voter's entry; an entry is erased only when its    *)
(* target is dropped, or by a clean-up when its voter has left the         *)
(* masternode list.                                                        *)
(***************************************************************************)
EXTENDS Integers, FiniteSets

CONSTANTS
    Targets,   \* proposal hashes
    Voters,    \* masternode collateral inputs
    Values     \* vote values

NoVote == -1

VARIABLES
    live,      \* targets currently held
    members,   \* voters in the masternode list
    reg        \* t -> v -> the choice counted for v on t, or NoVote

vars == <<live, members, reg>>

Empty == [v \in Voters |-> NoVote]

Init ==
    /\ live = {}
    /\ members \in SUBSET Voters
    /\ reg = [t \in Targets |-> Empty]

\* The votes of the voters in S with choice c are applied to t.
Vote(t, S, c) ==
    /\ t \in live
    /\ UNCHANGED <<live, members>>
    /\ reg' = [reg EXCEPT ![t] = [v \in Voters |-> IF v \in S THEN c ELSE @[v]]]

\* Target t becomes live with no votes, or with the one vote of voter v
\* that was waiting for it.
Open(t) ==
    /\ t \notin live
    /\ live' = live \cup {t}
    /\ UNCHANGED members
    /\ \E v \in Voters, c \in Values \cup {NoVote} :
          reg' = [reg EXCEPT ![t] = [Empty EXCEPT ![v] = c]]

\* Targets in D are dropped; when clean holds, the entries of voters who
\* left the list are erased from every target.
Maintain(D, clean) ==
    /\ live' = live \ D
    /\ UNCHANGED members
    /\ reg' = [t \in Targets |->
                 IF t \in D THEN Empty
                 ELSE IF clean THEN [v \in Voters |-> IF v \in members THEN reg[t][v] ELSE NoVote]
                 ELSE reg[t]]

Leave(v) ==
    /\ members' = members \ {v}
    /\ UNCHANGED <<live, reg>>

Join(v) ==
    /\ members' = members \cup {v}
    /\ UNCHANGED <<live, reg>>

Next ==
    \/ \E t \in Targets, S \in SUBSET Voters, c \in Values : Vote(t, S, c)
    \/ \E t \in Targets : Open(t)
    \/ \E D \in SUBSET live, clean \in BOOLEAN : Maintain(D, clean)
    \/ \E v \in Voters : Leave(v) \/ Join(v)

Spec == Init /\ [][Next]_vars

\* Type invariant; a target that is not live holds no votes.
TypeOK ==
    /\ live \subseteq Targets
    /\ members \subseteq Voters
    /\ reg \in [Targets -> [Voters -> Values \cup {NoVote}]]
    /\ \A t \in Targets \ live : reg[t] = Empty
=============================================================================
