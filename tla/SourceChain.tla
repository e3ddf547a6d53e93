----------------------------- MODULE SourceChain -----------------------------
(***************************************************************************)
(* The chain whose blobs are archived, as the syncer sees it through       *)
(* external.IClient: the beacon chain of Ethereum ("ETH", numbered by      *)
(* slot) or BNB Smart Chain ("BSC", numbered by block).                    *)
(*                                                                         *)
(* The nodes are not part of the repository.  The queries are modelled     *)
(* from external/client.go and external/eth/beacon_client.go, the chain's  *)
(* own steps from what those queries distinguish: a slot may be missed,    *)
(* the head moves, finality follows it, and what is not final may be       *)
(* reorganised.                                                            *)
(***************************************************************************)
EXTENDS BlobDao

CONSTANTS
    Network,        \* "ETH" or "BSC"
    Chains,         \* the chains considered: functions from Slots to Content
    FirstHead,      \* the head when the syncer is deployed
    FinalityLag,    \* finality is at least so many slots behind the head
    MaxNow,         \* bound on the clock
    MaxReorgs,      \* bound on reorganisations
    MaxGlitches     \* bound on replies the client mistakes for "no blobs"

Content == {"blobs", "empty", "missed"}

ASSUME ChainAssumption ==
    /\ Network \in {"ETH", "BSC"}
    /\ \A c \in Chains : c \in [Slots -> Content]
    /\ Network = "BSC" => \A c \in Chains, s \in Slots : c[s] # "missed"
    /\ FirstHead \in 0 .. MaxSlot + 1
    /\ FinalityLag \in Nat
    /\ MaxNow \in Nat \ {0}
    /\ MaxReorgs \in Nat
    /\ MaxGlitches \in Nat

VARIABLES
    canon,      \* the canonical chain; slots beyond head are yet to come
    head,       \* the last slot whose time has come
    finalized,  \* the last final slot
    reorgs, glitches,
    misread,    \* history: the slots for which some answer used by the sync
                \* loop is not what the canonical chain holds
    now         \* the wall clock, time.Now().Unix()

chainVars == <<canon, head, finalized, reorgs, glitches, misread, now>>

HasBlobs(s) == s \in Slots /\ canon[s] = "blobs"

\* GetBeaconBlock answers 404 for a missed slot and for one yet to come.
BlockNotFound(s) == s <= head /\ s \in Slots => canon[s] = "missed"

\* The header's Finalized flag of GetBeaconBlock's reply.
BlockFinalized(s) == s <= finalized

\* Mutant: at or before it.
BeforeLatestBeaconBlock_OffByOne(s) ==
    \E t \in s .. head : t \in Slots => canon[t] # "missed"

\* s is before the slot of GetLatestBeaconBlock's reply, the last slot up to
\* head that has a block.  Slot MaxSlot + 1 stands for all that come later.
BeforeLatestBeaconBlock(s) ==
    \E t \in s + 1 .. head : t \in Slots => canon[t] # "missed"

\* Mutants: the block after the final one; the latest block.
GetFinalizedBlockNum_OffByOne == finalized + 1

GetFinalizedBlockNum_Latest == head

\* GetFinalizedBlockNum (BSC).
GetFinalizedBlockNum == finalized

\* GetBlob: whether the reply carries blobs.  The beacon client does not look
\* at the status code: the error reply for a missed slot decodes as an empty
\* list, and so does the error reply of a node in trouble.
GetBlob(s, reply) ==
    \/ reply = HasBlobs(s) /\ UNCHANGED glitches
    \/ /\ Network = "ETH" /\ HasBlobs(s) /\ reply = FALSE
       /\ glitches < MaxGlitches
       /\ glitches' = glitches + 1

\* The answer is going to be recorded.
Misread(s, answer) ==
    misread' = IF answer = HasBlobs(s) THEN misread ELSE misread \cup {s}

-----------------------------------------------------------------------------
NewHead ==
    /\ head <= MaxSlot
    /\ head' = head + 1
    /\ UNCHANGED <<canon, finalized, reorgs, glitches, misread, now>>

Finalize ==
    /\ finalized' \in finalized + 1 .. head - FinalityLag
    /\ UNCHANGED <<canon, head, reorgs, glitches, misread, now>>

\* The canonical chain becomes another one that shares the final part.
\* A slot whose content changes may have been used already.
Reorg ==
    /\ reorgs < MaxReorgs
    /\ \E c \in Chains :
        /\ c # canon
        /\ \A s \in Slots : s <= finalized \/ s > head => c[s] = canon[s]
        /\ canon' = c
        /\ misread' = misread \cup {s \in Slots : c[s] # canon[s]}
    /\ reorgs' = reorgs + 1
    /\ UNCHANGED <<head, finalized, glitches, now>>

Tick ==
    /\ now < MaxNow
    /\ now' = now + 1
    /\ UNCHANGED <<canon, head, finalized, reorgs, glitches, misread>>

ChainNext == NewHead \/ Finalize \/ Reorg \/ Tick

ChainTypeOK ==
    /\ canon \in Chains
    /\ head \in 0 .. MaxSlot + 1
    /\ finalized \in 0 .. head
    /\ reorgs \in 0 .. MaxReorgs
    /\ glitches \in 0 .. MaxGlitches
    /\ misread \subseteq Slots
    /\ now \in 1 .. MaxNow

ChainInit ==
    /\ canon \in Chains
    /\ head = FirstHead
    /\ finalized = IF FirstHead > FinalityLag THEN FirstHead - FinalityLag ELSE 0
    /\ reorgs = 0
    /\ glitches = 0
    /\ misread = {}
    /\ now = 1
=============================================================================
