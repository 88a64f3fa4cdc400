---------------------------- MODULE ServerClients ----------------------------
(***************************************************************************)
(* The life of a client record in a libvncserver that runs in the          *)
(* background (rfbRunEventLoop() with runInBackground): the listener links *)
(* it, its own input and output threads use it, iterators of the           *)
(* application and of other threads walk over the list, and its input      *)
(* thread unlinks and frees it.                                            *)
(*                                                                         *)
(* rfbClientIteratorNext() follows the next pointer and tests the socket   *)
(* before it counts its reference: a walker that finds a freed client      *)
(* there is lost.  clientOutput() tests the socket before it takes the     *)
(* mutex it waits with.  clientInput() tests it after a message, not after *)
(* a timeout and not before it waits again.  All three windows are steps   *)
(* of their own here.                                                      *)
(***************************************************************************)
EXTENDS Integers, FiniteSets

CONSTANTS
  Clients,       \* client records
  Walkers,       \* threads that use an iterator
  Null

ASSUME ClientsAssumption ==
  Null \notin Clients /\ IsFiniteSet(Clients) /\ IsFiniteSet(Walkers)

VARIABLES
  clientHead, next, prev,   \* the list
  life,          \* "unborn", "linked", "unlinked", "freed"
  sock,          \* cl->sock # -1
  refCount,
  listMutex,     \* the client whose thread holds rfbClientListMutex
  input,         \* where clientInput() is
  output,        \* where clientOutput() is
  pending,       \* there is an update to send
  at, stage      \* i->next of a walker, and what it does with it

listVars == <<clientHead, next, prev, listMutex>>
recordVars == <<life, sock, refCount>>
loopVars == <<input, output, pending>>
walkerVars == <<at, stage>>
clientsVars == <<listVars, recordVars, loopVars, walkerVars>>

ClientsTypeOK ==
  /\ clientHead \in Clients \cup {Null}
  /\ next \in [Clients -> Clients \cup {Null}]
  /\ prev \in [Clients -> Clients \cup {Null}]
  /\ life \in [Clients -> {"unborn", "linked", "unlinked", "freed"}]
  /\ sock \in [Clients -> BOOLEAN]
  /\ refCount \in [Clients -> Nat]
  /\ listMutex \in Clients \cup {Null}
  /\ input \in [Clients -> {"none", "reading", "select", "blind",
                            "signal", "join", "gone", "waitRefs", "ended"}]
  /\ output \in [Clients -> {"none", "test", "lock", "wait", "defer",
                             "sending", "ended"}]
  /\ pending \in [Clients -> BOOLEAN]
  /\ at \in [Walkers -> Clients \cup {Null}]
  /\ stage \in [Walkers -> {"idle", "skip", "count", "use", "lost"}]

ClientsInit ==
  /\ clientHead = Null
  /\ next = [c \in Clients |-> Null] /\ prev = [c \in Clients |-> Null]
  /\ life = [c \in Clients |-> "unborn"]
  /\ sock = [c \in Clients |-> FALSE]
  /\ refCount = [c \in Clients |-> 0]
  /\ listMutex = Null
  /\ input = [c \in Clients |-> "none"]
  /\ output = [c \in Clients |-> "none"]
  /\ pending = [c \in Clients |-> FALSE]
  /\ at = [w \in Walkers |-> Null] /\ stage = [w \in Walkers |-> "idle"]

-----------------------------------------------------------------------------
(* Plausible mistakes in the definitions below. *)

(* A record that is freed while references to it are left. *)
NoReferencesAssumed(c) == TRUE

(* A thread that closes its client without waking the output thread. *)
WokenNever(c) == output

-----------------------------------------------------------------------------
(* TSIGNAL(cl->updateCond). *)
Woken(c) ==
  IF output[c] = "wait" THEN [output EXCEPT ![c] = "test"] ELSE output

(* The listener: rfbNewTCPOrUDPClient() and clientInput(), whose first act *)
(* is to start clientOutput(), or the application's hook refuses.          *)
NewClient(c) ==
  /\ life[c] = "unborn" /\ listMutex = Null
  /\ life' = [life EXCEPT ![c] = "linked"]
  /\ next' = [next EXCEPT ![c] = clientHead]
  /\ prev' = [d \in Clients |-> IF d = clientHead THEN c ELSE prev[d]]
  /\ clientHead' = c
  /\ \/ /\ sock' = [sock EXCEPT ![c] = TRUE]
        /\ input' = [input EXCEPT ![c] = "reading"]
        /\ output' = [output EXCEPT ![c] = "test"]
     \/ /\ input' = [input EXCEPT ![c] = "gone"]
        /\ UNCHANGED <<sock, output>>
  /\ UNCHANGED <<refCount, listMutex, pending, walkerVars>>

(* rfbCloseClient(). *)
Closes(c) ==
  /\ sock' = [sock EXCEPT ![c] = FALSE]
  /\ output' = Woken(c)

-----------------------------------------------------------------------------
(* clientInput().  The top of its loop puts cl->sock into the sets ... *)
InputSelects(c) ==
  /\ input[c] = "reading" /\ sock[c]
  /\ input' = [input EXCEPT ![c] = "select"]
  /\ UNCHANGED <<listVars, recordVars, output, pending, walkerVars>>

(* ... also when another thread has made that -1.  FD_SET() of -1 is       *)
(* undefined, and select() then has no descriptor: it fails, which ends    *)
(* the loop, or it times out every minute, and continue skips the test of  *)
(* the socket for ever.                                                    *)
InputSelectsNothing(c) ==
  /\ input[c] = "reading" /\ ~sock[c]
  /\ input' \in {[input EXCEPT ![c] = "signal"], [input EXCEPT ![c] = "blind"]}
  /\ UNCHANGED <<listVars, recordVars, output, pending, walkerVars>>

(* Nothing came for a minute. *)
InputTimesOut(c) ==
  /\ input[c] = "select" /\ sock[c]
  /\ input' = [input EXCEPT ![c] = "reading"]
  /\ UNCHANGED <<listVars, recordVars, output, pending, walkerVars>>

(* A request of the client; the socket is still open when it is tested. *)
InputHandles(c) ==
  /\ input[c] = "select" /\ sock[c]
  /\ pending' = [pending EXCEPT ![c] = TRUE]
  /\ output' = Woken(c)
  /\ input' = [input EXCEPT ![c] = "reading"]
  /\ UNCHANGED <<listVars, recordVars, walkerVars>>

(* The end of the connection, or an error in a message. *)
InputCloses(c) ==
  /\ input[c] = "select" /\ sock[c]
  /\ Closes(c)
  /\ input' = [input EXCEPT ![c] = "signal"]
  /\ UNCHANGED <<listVars, life, refCount, pending, walkerVars>>

(* The shutdown() of another thread wakes select(), or comes while a       *)
(* request is handled: the test finds the socket closed.                   *)
InputStops(c) ==
  /\ input[c] = "select" /\ ~sock[c]
  /\ input' = [input EXCEPT ![c] = "signal"]
  /\ UNCHANGED <<listVars, recordVars, output, pending, walkerVars>>

InputSignals(c) ==
  /\ input[c] = "signal"
  /\ output' = Woken(c)
  /\ input' = [input EXCEPT ![c] = "join"]
  /\ UNCHANGED <<listVars, recordVars, pending, walkerVars>>

InputJoins(c) ==
  /\ input[c] = "join" /\ output[c] = "ended"
  /\ input' = [input EXCEPT ![c] = "gone"]
  /\ UNCHANGED <<listVars, recordVars, output, pending, walkerVars>>

(* rfbClientConnectionGone(): unlinked, with the list locked from here on. *)
Unlink(c) ==
  /\ input[c] = "gone" /\ listMutex = Null
  /\ listMutex' = c
  /\ clientHead' = IF prev[c] = Null THEN next[c] ELSE clientHead
  /\ next' = [d \in Clients |-> IF d = prev[c] THEN next[c] ELSE next[d]]
  /\ prev' = [d \in Clients |-> IF d = next[c] THEN prev[c] ELSE prev[d]]
  /\ life' = [life EXCEPT ![c] = "unlinked"]
  /\ input' = [input EXCEPT ![c] = "waitRefs"]
  /\ UNCHANGED <<sock, refCount, output, pending, walkerVars>>

NoReferences(c) == refCount[c] = 0

ConnectionGone(c) ==
  /\ input[c] = "waitRefs" /\ NoReferences(c)
  /\ listMutex' = Null
  /\ life' = [life EXCEPT ![c] = "freed"]
  /\ input' = [input EXCEPT ![c] = "ended"]
  /\ UNCHANGED <<clientHead, next, prev, sock, refCount, output, pending,
                 walkerVars>>

-----------------------------------------------------------------------------
(* clientOutput(). *)

OutputTests(c) ==
  /\ output[c] = "test"
  /\ output' = [output EXCEPT ![c] = IF sock[c] THEN "lock" ELSE "ended"]
  /\ UNCHANGED <<listVars, recordVars, input, pending, walkerVars>>

OutputWaits(c) ==
  /\ output[c] = "lock"
  /\ output' = [output EXCEPT ![c] = IF pending[c] THEN "defer" ELSE "wait"]
  /\ UNCHANGED <<listVars, recordVars, input, pending, walkerVars>>

OutputRefers(c) ==
  /\ output[c] = "defer"
  /\ refCount' = [refCount EXCEPT ![c] = @ + 1]
  /\ output' = [output EXCEPT ![c] = "sending"]
  /\ UNCHANGED <<listVars, life, sock, input, pending, walkerVars>>

(* The update is sent, or cannot be and the client is closed. *)
OutputSends(c) ==
  /\ output[c] = "sending"
  /\ pending' = [pending EXCEPT ![c] = FALSE]
  /\ refCount' = [refCount EXCEPT ![c] = @ - 1]
  /\ output' = [output EXCEPT ![c] = "test"]
  /\ sock' \in {sock, [sock EXCEPT ![c] = FALSE]}
  /\ UNCHANGED <<listVars, life, input, walkerVars>>

-----------------------------------------------------------------------------
(* rfbClientIteratorNext() and what its callers do with a client. *)

(* The first call reads the head of the list. *)
WalkFromHead(w) ==
  /\ stage[w] = "idle" /\ listMutex = Null
  /\ clientHead # Null
  /\ at' = [at EXCEPT ![w] = clientHead]
  /\ stage' = [stage EXCEPT ![w] = "skip"]
  /\ UNCHANGED <<listVars, recordVars, loopVars>>

(* The others follow the pointer of the client they leave. *)
WalkOn(w) ==
  /\ stage[w] = "use"
  /\ refCount' = [refCount EXCEPT ![at[w]] = @ - 1]
  /\ at' = [at EXCEPT ![w] = next[at[w]]]
  /\ stage' = [stage EXCEPT ![w] = IF at'[w] = Null THEN "idle" ELSE "skip"]
  /\ UNCHANGED <<listVars, life, sock, loopVars>>

(* A walker reads a client it has not counted. *)
NextIsLost(w) == life[at[w]] = "freed"

WalkSkips(w) ==
  /\ stage[w] = "skip" /\ ~NextIsLost(w)
  /\ IF sock[at[w]]
       THEN stage' = [stage EXCEPT ![w] = "count"] /\ UNCHANGED at
       ELSE /\ at' = [at EXCEPT ![w] = next[at[w]]]
            /\ stage' = [stage EXCEPT ![w] =
                           IF at'[w] = Null THEN "idle" ELSE "skip"]
  /\ UNCHANGED <<listVars, recordVars, loopVars>>

WalkCounts(w) ==
  /\ stage[w] = "count" /\ ~NextIsLost(w)
  /\ refCount' = [refCount EXCEPT ![at[w]] = @ + 1]
  /\ stage' = [stage EXCEPT ![w] = "use"]
  /\ UNCHANGED <<listVars, life, sock, loopVars, at>>

WalkIsLost(w) ==
  /\ stage[w] \in {"skip", "count"} /\ NextIsLost(w)
  /\ stage' = [stage EXCEPT ![w] = "lost"]
  /\ UNCHANGED <<listVars, recordVars, loopVars, at>>

(* rfbMarkRegionAsModified(), rfbNewFramebuffer(). *)
Mark(w) ==
  /\ stage[w] = "use"
  /\ pending' = [pending EXCEPT ![at[w]] = TRUE]
  /\ output' = Woken(at[w])
  /\ UNCHANGED <<listVars, recordVars, input, walkerVars>>

(* rfbShutdownServer(), and the sharing rule of a new client. *)
CloseOther(w) ==
  /\ stage[w] = "use" /\ sock[at[w]]
  /\ Closes(at[w])
  /\ UNCHANGED <<listVars, life, refCount, input, pending, walkerVars>>

(* rfbReleaseClientIterator() before the end of the list. *)
ReleaseIterator(w) ==
  /\ stage[w] = "use"
  /\ refCount' = [refCount EXCEPT ![at[w]] = @ - 1]
  /\ at' = [at EXCEPT ![w] = Null]
  /\ stage' = [stage EXCEPT ![w] = "idle"]
  /\ UNCHANGED <<listVars, life, sock, loopVars>>

InputThread(c) ==
  \/ InputSelects(c) \/ InputSelectsNothing(c) \/ InputStops(c)
  \/ InputSignals(c) \/ InputJoins(c)
  \/ Unlink(c) \/ ConnectionGone(c)
OutputThread(c) ==
  \/ OutputTests(c) \/ OutputWaits(c) \/ OutputRefers(c) \/ OutputSends(c)
Walk(w) ==
  \/ WalkFromHead(w) \/ WalkOn(w) \/ WalkSkips(w) \/ WalkCounts(w)
  \/ WalkIsLost(w) \/ ReleaseIterator(w)

ClientsNext ==
  \/ \E c \in Clients :
       \/ NewClient(c) \/ InputTimesOut(c) \/ InputHandles(c)
       \/ InputCloses(c) \/ InputThread(c) \/ OutputThread(c)
  \/ \E w \in Walkers : Walk(w) \/ Mark(w) \/ CloseOther(w)

ClientsSpec ==
  /\ ClientsInit /\ [][ClientsNext]_clientsVars
  /\ \A c \in Clients : /\ SF_clientsVars(InputThread(c))
                        /\ WF_clientsVars(OutputThread(c))
  /\ \A w \in Walkers : WF_clientsVars(WalkOn(w))

-----------------------------------------------------------------------------
Holders(c) ==
  Cardinality({w \in Walkers : stage[w] = "use" /\ at[w] = c})
    + (IF output[c] = "sending" THEN 1 ELSE 0)

(* A client is not freed while a walker that has counted its reference, or *)
(* the output thread in the middle of an update, uses it; the count is     *)
(* that of its users, whoever closes the client and however often.         *)
CountedIsAlive ==
  \A c \in Clients :
    /\ refCount[c] = Holders(c)
    /\ life[c] = "freed" => refCount[c] = 0 /\ output[c] \in {"none", "ended"}

(* clientOutput() has tested the socket and has not locked the mutex yet,  *)
(* or waits although both signals were sent already.                       *)
MissesSignals(c) ==
  output[c] = "lock" \/ (input[c] = "join" /\ output[c] = "wait")

(* clientInput() has tested the socket, or skipped the test after a        *)
(* timeout, and does not wait yet, or waits without a descriptor.          *)
MissesShutdown(c) == input[c] \in {"reading", "blind"}

(* A closed client is freed in the end, whoever closed it and whatever its *)
(* threads were doing, except in the two windows.  In the one the output   *)
(* thread can miss the signal of rfbCloseClient() and that of              *)
(* clientInput(), whose pthread_join() then never returns; in the other    *)
(* the input thread itself can miss a shutdown() by another thread.        *)
ClosedClientEnds ==
  \A c \in Clients :
    (/\ life[c] = "linked" /\ ~sock[c]
     /\ ~MissesSignals(c) /\ ~MissesShutdown(c)) ~> life[c] = "freed"
=============================================================================
