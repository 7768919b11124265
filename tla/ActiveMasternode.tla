-------------------------- MODULE ActiveMasternode --------------------------
(***************************************************************************)
(* The local masternode's life cycle, CActiveMasternode::ManageStatus of  *)
(* src/src/activemasternode.cpp with the calls it makes (EnableHotCold-   *)
(* MasterNode, GetMasterNodeVin, SelectCoinsMasternode, Register,         *)
(* SendMasternodePing), run periodically against an environment that     *)
(* finishes the initial block download, confirms coins, locks and         *)
(* unlocks the wallet, lets pings go stale, drops the node from the       *)
(* masternode list, and may start it remotely from a cold wallet.         *)
(*                                                                         *)
(* The masternode list is reduced to the entry for this node's key        *)
(* (entry).  The wallet's AvailableCoins is taken to return the           *)
(* collateral coins that are not locked (CWallet skips locked coins);     *)
(* GetVinFromOutput always finds the key of a wallet coin.                *)
(***************************************************************************)
EXTENDS Naturals, Sequences, SequencesExt, FiniteSets

CONSTANTS
    Coins,       \* 1000-coin outputs of this wallet
    CoinOrder,   \* Coins in the order AvailableCoins lists them
    ConfCoins,   \* outputs named in masternode.conf (-mnconflock on)
    ColdCoins,   \* collaterals a cold wallet may start this node with
    MinConf,     \* MASTERNODE_MIN_CONFIRMATIONS
    MaxLocks     \* bound on the times the user locks the wallet

ASSUME /\ ToSet(CoinOrder) = Coins /\ ConfCoins \subseteq Coins
       /\ Coins \cap ColdCoins = {} /\ MinConf \in Nat \ {0}

INITIAL == "INITIAL"
SYNC_IN_PROCESS == "SYNC_IN_PROCESS"
INPUT_TOO_NEW == "INPUT_TOO_NEW"
NOT_CAPABLE == "NOT_CAPABLE"
STARTED == "STARTED"

NoVin == "novin"
NoEntry == [vin |-> NoVin, enabled |-> FALSE]

VARIABLES
    status,        \* CActiveMasternode::status
    vin,           \* CActiveMasternode::vin
    ibd,           \* IsInitialBlockDownload()
    age,           \* coin -> confirmations (GetInputAge), capped at MinConf
    locked,        \* the wallet's locked coins (LockCoin / UnlockCoin)
    walletLocked,  \* pwalletMain->IsLocked()
    entry,         \* the masternode list entry of this node, or NoEntry
    pingFresh,     \* the entry was pinged within MASTERNODE_PING_SECONDS
    lockCount,     \* times the user locked the wallet
    conf           \* configuration: [key: strMasterNodePrivKey is valid
                   \* (SetKey succeeds), port: the port fits the network]

vars == <<status, vin, ibd, age, locked, walletLocked, entry, pingFresh, lockCount, conf>>

\* The temporary unlock and relock of SelectCoinsMasternode: every
\* masternode.conf output is locked afterwards.
RelockConf(lk) == IF ConfCoins # {} THEN lk \cup ConfCoins ELSE lk

\* SelectCoinsMasternode: the outputs AvailableCoins lists while the conf
\* outputs are unlocked, in wallet order.
SelectCoinsMasternode ==
    SelectSeq(CoinOrder, LAMBDA c : c \notin locked \/ c \in ConfCoins)

\* Mutant of InputTooNew: the confirmation test is off by one.
InputTooNewOffByOne(c) == age[c] <= MinConf

\* Mutant of InputTooNew: the confirmation test is left out.
InputTooNewNever(c) == FALSE

\* The test GetInputAge(vin) < MASTERNODE_MIN_CONFIRMATIONS.
InputTooNew(c) == age[c] < MinConf

\* Mutant of LockCollateral: the vin of the list entry is locked instead
\* of the coin just chosen.
LockCollateralEntry(lk, c) == lk \cup {entry.vin}

\* pwalletMain->LockCoin(vin.prevout) before registering.
LockCollateral(lk, c) == lk \cup {c}

\* The hot/cold check at the top of ManageStatus: while INITIAL or
\* syncing, an enabled list entry for this key makes the node STARTED
\* with the entry's vin (EnableHotColdMasterNode).
HotCold ==
    IF status \in {INITIAL, SYNC_IN_PROCESS} /\ entry # NoEntry /\ entry.enabled
    THEN [status |-> STARTED, vin |-> entry.vin]
    ELSE [status |-> status, vin |-> vin]

\* SendMasternodePing for vin v: it needs SetKey and an entry for v that
\* was not pinged within MASTERNODE_PING_SECONDS; without an entry the
\* node stops pinging and is NOT_CAPABLE.
SendMasternodePing(v) ==
    /\ vin' = v
    /\ \/ /\ ~conf.key \/ (entry.vin = v /\ pingFresh)
          /\ status' = STARTED
          /\ UNCHANGED pingFresh
       \/ /\ conf.key /\ entry # NoEntry /\ entry.vin = v /\ ~pingFresh
          /\ status' = STARTED
          /\ pingFresh' = TRUE
       \/ /\ conf.key /\ (entry = NoEntry \/ entry.vin # v)
          /\ status' = NOT_CAPABLE
          /\ UNCHANGED pingFresh
    /\ UNCHANGED <<locked, entry>>

\* The registration branch of ManageStatus (status not STARTED): every
\* early return leaves NOT_CAPABLE; the coin GetMasterNodeVin picks is
\* stored in vin before its age is tested; Register adds or updates the
\* list entry with a fresh ping.
RegisterBranch(addrOk, connectOk) ==
    LET cands == SelectCoinsMasternode
        lk    == RelockConf(locked)
    IN
    \/ /\ ~addrOk \/ ~conf.port \/ ~connectOk \/ walletLocked
       /\ status' = NOT_CAPABLE
       /\ UNCHANGED <<vin, locked, entry, pingFresh>>
    \/ /\ addrOk /\ conf.port /\ connectOk /\ ~walletLocked
       /\ cands = <<>>
       /\ status' = NOT_CAPABLE /\ locked' = lk
       /\ UNCHANGED <<vin, entry, pingFresh>>
    \/ /\ addrOk /\ conf.port /\ connectOk /\ ~walletLocked
       /\ cands # <<>>
       /\ vin' = cands[1]
       /\ \/ /\ InputTooNew(cands[1])
             /\ status' = INPUT_TOO_NEW /\ locked' = lk
             /\ UNCHANGED <<entry, pingFresh>>
          \/ /\ ~InputTooNew(cands[1]) /\ ~conf.key
             /\ status' = NOT_CAPABLE /\ locked' = LockCollateral(lk, cands[1])
             /\ UNCHANGED <<entry, pingFresh>>
          \/ /\ ~InputTooNew(cands[1]) /\ conf.key
             /\ status' = STARTED /\ locked' = LockCollateral(lk, cands[1])
             /\ entry' = [vin |-> cands[1], enabled |-> TRUE]
             /\ pingFresh' = TRUE

\* CActiveMasternode::ManageStatus, with the outcome of GetLocal or the
\* configured address (addrOk) and of ConnectNode (connectOk) as inputs.
ManageStatus(addrOk, connectOk) ==
    /\ \/ /\ ibd
          /\ status' = SYNC_IN_PROCESS
          /\ UNCHANGED <<vin, locked, entry, pingFresh>>
       \/ /\ ~ibd
          /\ IF HotCold.status = STARTED
             THEN SendMasternodePing(HotCold.vin)
             ELSE RegisterBranch(addrOk, connectOk)
    /\ UNCHANGED <<ibd, age, walletLocked, lockCount, conf>>

Init ==
    /\ status = INITIAL
    /\ vin = NoVin
    /\ ibd = TRUE
    /\ age \in [Coins -> 1..MinConf]
    /\ locked = {}
    /\ walletLocked \in BOOLEAN
    /\ entry = NoEntry
    /\ pingFresh = FALSE
    /\ lockCount = 0
    /\ conf \in [key : BOOLEAN, port : BOOLEAN]

\* The environment ------------------------------------------------------

\* The initial block download finishes (it does not come back).
IBDDone ==
    /\ ibd /\ ibd' = FALSE
    /\ UNCHANGED <<status, vin, age, locked, walletLocked, entry, pingFresh, lockCount, conf>>

\* A block confirms coin c once more (ages from MinConf on are alike).
Confirm(c) ==
    /\ age[c] < MinConf
    /\ age' = [age EXCEPT ![c] = @ + 1]
    /\ UNCHANGED <<status, vin, ibd, locked, walletLocked, entry, pingFresh, lockCount, conf>>

\* The user locks or unlocks the wallet.
LockWallet ==
    /\ ~walletLocked /\ lockCount < MaxLocks
    /\ walletLocked' = TRUE /\ lockCount' = lockCount + 1
    /\ UNCHANGED <<status, vin, ibd, age, locked, entry, pingFresh, conf>>

UnlockWallet ==
    /\ walletLocked /\ walletLocked' = FALSE
    /\ UNCHANGED <<status, vin, ibd, age, locked, entry, pingFresh, lockCount, conf>>

\* MASTERNODE_PING_SECONDS pass since the last ping.
PingAges ==
    /\ pingFresh /\ pingFresh' = FALSE
    /\ UNCHANGED <<status, vin, ibd, age, locked, walletLocked, entry, lockCount, conf>>

\* The masternode list's Check disables, or its CheckAndRemove drops, the
\* entry whose pings stopped.
Expire ==
    /\ entry # NoEntry /\ ~pingFresh
    /\ entry' \in {NoEntry, [entry EXCEPT !.enabled = FALSE]} \ {entry}
    /\ UNCHANGED <<status, vin, ibd, age, locked, walletLocked, pingFresh, lockCount, conf>>

\* A cold wallet starts this node's key with collateral k (an "mnb" for
\* this key reaches the list).
ColdStart(k) ==
    /\ entry = NoEntry
    /\ entry' = [vin |-> k, enabled |-> TRUE] /\ pingFresh' = TRUE
    /\ UNCHANGED <<status, vin, ibd, age, locked, walletLocked, lockCount, conf>>

Environment ==
    \/ IBDDone
    \/ \E c \in Coins : Confirm(c)
    \/ LockWallet
    \/ UnlockWallet
    \/ PingAges
    \/ Expire
    \/ \E k \in ColdCoins : ColdStart(k)

Next ==
    \/ \E a, n \in BOOLEAN : ManageStatus(a, n)
    \/ Environment

\* ManageStatus runs periodically; the download ends, coins confirm and
\* a locked wallet is unlocked again; the address and the connection
\* check succeed whenever they are retried.
Fairness ==
    /\ WF_vars(ManageStatus(TRUE, TRUE))
    /\ WF_vars(IBDDone)
    /\ \A c \in Coins : WF_vars(Confirm(c))
    /\ WF_vars(UnlockWallet)

Spec == Init /\ [][Next]_vars /\ Fairness

----------------------------------------------------------------------------
\* Type invariant.
TypeOK ==
    /\ status \in {INITIAL, SYNC_IN_PROCESS, INPUT_TOO_NEW, NOT_CAPABLE, STARTED}
    /\ vin \in Coins \cup ColdCoins \cup {NoVin}
    /\ ibd \in BOOLEAN /\ walletLocked \in BOOLEAN /\ pingFresh \in BOOLEAN
    /\ age \in [Coins -> 1..MinConf]
    /\ locked \in SUBSET Coins
    /\ entry \in [vin : Coins \cup ColdCoins, enabled : BOOLEAN] \cup {NoEntry}
    /\ lockCount \in 0..MaxLocks
    /\ conf \in [key : BOOLEAN, port : BOOLEAN]

\* A STARTED node pings for a collateral the network accepts: a cold
\* wallet's, or a coin of its own with MASTERNODE_MIN_CONFIRMATIONS,
\* whichever path (hot/cold, INPUT_TOO_NEW then retry) got it there.
StartedMature ==
    status = STARTED =>
        \/ vin \in ColdCoins
        \/ vin \in Coins /\ age[vin] >= MinConf

\* A node with a valid key and port and a maturing collateral, whose
\* address and connection checks pass when retried, eventually becomes
\* STARTED.
EventuallyStarted == (conf.key /\ conf.port) => <>(status = STARTED)
=============================================================================
