----------------------------- MODULE SearchSync -----------------------------
(* One NFT's row and its document in the search index.  A request saves    *)
(* the row and, when it is done, emits an event; a listener then reads the *)
(* row again and sends it to the index.  Nothing orders the listeners, and *)
(* a failed one is logged and forgotten.                                   *)
EXTENDS Naturals

CONSTANTS MaxWrites,        \* bound: mints, updates, transfers and burns
          MaxSearchFaults   \* bound: refused statements, outages and restarts

SearchConstants == MaxWrites \in Nat /\ MaxSearchFaults \in Nat

VARIABLES nft,       \* the row; `ver' counts its changes, 0: not minted
          document,  \* what the index holds
          write,     \* each request with the listener call that follows it
          settings,  \* the memoised settingsPromise
          tainted,   \* history: a sync failed or met another since the last
                     \* one that was alone and went through
          revived,   \* history: an old copy was saved over a burned row
          searchFaults

searchVars == <<nft, document, write, settings, tainted, revived, searchFaults>>

Write == 1..MaxWrites
Row   == [ver : 0..(3 * MaxWrites), burned : BOOLEAN]
NoNft == [ver |-> 0, burned |-> FALSE]
Syncing == {"reading", "ensuring", "waiting", "adding"}

TypeOK ==
    /\ nft \in Row /\ document \in Row
    /\ write \in [Write -> [pc : Syncing \cup {"idle", "saving", "clearing", "filling",
                                               "emitting", "done"},
                            kind : {"none", "mint", "update", "transfer", "burn"},
                            copy : Row, shared : BOOLEAN]]
    /\ settings \in {"none", "configuring", "ready"}
    /\ tainted \in BOOLEAN /\ revived \in BOOLEAN /\ searchFaults \in 0..MaxSearchFaults

Init ==
    /\ nft = NoNft /\ document = NoNft
    /\ write = [w \in Write |-> [pc |-> "idle", kind |-> "none", copy |-> NoNft,
                                 shared |-> FALSE]]
    /\ settings = "none" /\ tainted = FALSE /\ revived = FALSE /\ searchFaults = 0

To(w, pc)   == write' = [write EXCEPT ![w].pc = pc]
SearchFault == searchFaults < MaxSearchFaults /\ searchFaults' = searchFaults + 1

-----------------------------------------------------------------------------
(* A request reads the row; update, updateOwnershipViaContract and burn    *)
(* refuse a burned one.                                                    *)
Begin(w, kind) ==
    /\ write[w].pc = "idle" /\ \A v \in 1..(w - 1) : write[v].pc # "idle"
    /\ \/ kind = "mint" /\ w = 1
       \/ kind # "mint" /\ nft.ver > 0 /\ ~nft.burned
    /\ write' = [write EXCEPT ![w].pc = "saving", ![w].kind = kind,
                              ![w].copy = [nft EXCEPT !.burned = kind = "burn"]]
    /\ UNCHANGED <<nft, document, settings, tainted, revived, searchFaults>>

(* save writes the columns in which the copy differs from the row.         *)
SaveNft(w) ==
    /\ write[w].pc = "saving"
    /\ nft' = [ver |-> nft.ver + 1, burned |-> write[w].copy.burned]
    /\ revived' = (revived \/ (nft.burned /\ ~nft'.burned))
    /\ write' = [write EXCEPT
          ![w].copy = nft',
          ![w].pc = CASE write[w].kind = "mint" -> "filling"
                      [] write[w].kind = "update" -> "clearing"
                      [] OTHER -> "emitting"]
    /\ UNCHANGED <<document, settings, tainted, searchFaults>>

(* An update may delete the attributes and, like a mint, save others.      *)
SaveAttributes(w) ==
    /\ \/ write[w].pc = "clearing" /\ write' = [write EXCEPT ![w].pc = "filling"]
       \/ write[w].pc = "filling" /\ write' = [write EXCEPT ![w].pc = "emitting"]
    /\ nft' = [nft EXCEPT !.ver = @ + 1]
    /\ UNCHANGED <<document, settings, tainted, revived, searchFaults>>

NoAttributes(w) ==
    /\ write[w].pc \in {"clearing", "filling"} /\ To(w, "emitting")
    /\ UNCHANGED <<nft, document, settings, tainted, revived, searchFaults>>

(* History: what the listeners under way send may be old by then.          *)
Spoilt == [v \in Write |-> [write[v] EXCEPT !.shared = @ \/ write[v].pc \in Syncing]]

(* emitSearchEvent, by setImmediate: the listener starts, beside others.   *)
Emit(w) ==
    LET others == {v \in Write : write[v].pc \in Syncing} IN
    /\ write[w].pc = "emitting"
    /\ write' = [Spoilt EXCEPT ![w].shared = others # {},
                               ![w].pc = IF write[w].kind = "burn" THEN "ensuring"
                                                                   ELSE "reading"]
    /\ tainted' = (tainted \/ others # {})
    /\ UNCHANGED <<nft, document, settings, revived, searchFaults>>

-----------------------------------------------------------------------------
(* Mutant: the event carries the request's own copy.                       *)
ReadNothing(w) ==
    /\ write[w].pc = "reading" /\ To(w, "ensuring")
    /\ UNCHANGED <<nft, document, settings, tainted, revived, searchFaults>>

(* handleNftUpsert reads the row as it is by now.                          *)
Read(w) ==
    /\ write[w].pc = "reading"
    /\ write' = [write EXCEPT ![w].copy = nft, ![w].pc = "ensuring"]
    /\ UNCHANGED <<nft, document, settings, tainted, revived, searchFaults>>

(* ensureSettings: the first caller configures, the others wait for it.    *)
EnsureSettings(w) ==
    /\ write[w].pc = "ensuring"
    /\ To(w, IF settings = "ready" THEN "adding" ELSE "waiting")
    /\ settings' = IF settings = "none" THEN "configuring" ELSE settings
    /\ UNCHANGED <<nft, document, tainted, revived, searchFaults>>

Waiters(pc) == [w \in Write |-> IF write[w].pc = "waiting"
                                THEN [write[w] EXCEPT !.pc = pc] ELSE write[w]]

Configured ==
    /\ settings = "configuring" /\ settings' = "ready"
    /\ write' = Waiters("adding")
    /\ UNCHANGED <<nft, document, tainted, revived, searchFaults>>

(* A rejected promise is not kept: the next caller configures again.       *)
ConfigureFails ==
    /\ settings = "configuring" /\ SearchFault
    /\ settings' = "none" /\ write' = Waiters("done") /\ tainted' = TRUE
    /\ UNCHANGED <<nft, document, revived>>

(* addDocuments, or deleteDocument after a burn.                           *)
Sent(w) == document' = IF write[w].kind = "burn" THEN NoNft ELSE write[w].copy

Add(w) ==
    /\ write[w].pc = "adding" /\ Sent(w)
    /\ To(w, "done")
    /\ tainted' = (tainted /\ write[w].shared)
    /\ UNCHANGED <<nft, settings, revived, searchFaults>>

(* The index is away, or has the document and its answer is lost.          *)
AddFails(w) ==
    /\ write[w].pc = "adding" /\ SearchFault
    /\ Sent(w) \/ UNCHANGED document
    /\ To(w, "done") /\ tainted' = TRUE
    /\ UNCHANGED <<nft, settings, revived>>

(* A statement is refused: once the row is saved its event is never sent.  *)
(* Mint and update read the NFT once more before they emit.                *)
WriteRefused(w) ==
    /\ \/ write[w].pc \in {"saving", "clearing", "filling", "reading"}
       \/ write[w].pc = "emitting" /\ write[w].kind \in {"mint", "update"}
    /\ SearchFault /\ write' = [Spoilt EXCEPT ![w].pc = "done"]
    /\ tainted' = (tainted \/ write[w].pc # "saving")
    /\ UNCHANGED <<nft, document, settings, revived>>

(* The instance restarts.                                                  *)
Under(w) == write[w].pc \notin {"idle", "done"}

SearchCrash ==
    /\ SearchFault /\ \E w \in Write : Under(w)
    /\ write' = [w \in Write |-> IF Under(w) THEN [write[w] EXCEPT !.pc = "done"]
                                             ELSE write[w]]
    /\ settings' = "none"
    /\ tainted' = (tainted \/ \E w \in Write : Under(w) /\ write[w].pc # "saving")
    /\ UNCHANGED <<nft, document, revived>>

Next ==
    \/ Configured \/ ConfigureFails \/ SearchCrash
    \/ \E w \in Write :
         \/ \E kind \in {"mint", "update", "transfer", "burn"} : Begin(w, kind)
         \/ SaveNft(w) \/ SaveAttributes(w) \/ NoAttributes(w) \/ Emit(w)
         \/ Read(w) \/ EnsureSettings(w) \/ Add(w) \/ AddFails(w) \/ WriteRefused(w)

Spec == Init /\ [][Next]_searchVars

-----------------------------------------------------------------------------
(* What a search shows is the row; a burned NFT is not found.              *)
Matches == IF nft.burned THEN document.ver = 0 \/ document.burned ELSE document = nft

(* Once all is quiet the index shows the row, unless a sync failed or met  *)
(* another one, or an old copy brought a burned NFT back: whatever was     *)
(* saved while a listener ran is sent after it.                            *)
StaleHasCause ==
    (\A w \in Write : ~Under(w)) /\ ~tainted /\ ~revived => Matches

(* Not kept: a quiet index shows the row; a burned NFT stays burned.       *)
IndexCatchesUp == (\A w \in Write : ~Under(w)) => Matches
BurnedIsFinal  == [][nft.burned => nft'.burned]_searchVars
=============================================================================
