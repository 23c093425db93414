---------------------------- MODULE SimReqChannel ----------------------------
(***************************************************************************)
(* The simulator-request protocol gendef.py generates for a              *)
(* SimulatorRequest .def file.  In the simulated program,                  *)
(* PYRITE_generate<X>SimRequest stores each argument k in the global       *)
(* channel PYRITE_SIMULATOR_CHANNEL.data<k>, then executes the magic       *)
(* instruction SIMULATOR_REQUEST (or SIMULATOR_REQUEST2, which also passes *)
(* the first argument in %ecx).  In the simulator, the generated switch    *)
(* branch takes the first argument from %ecx when so passed, asserts that *)
(* each other channel address virtAddrData<counter> is mapped and reads   *)
(* data<counter> from it, and calls handle<X>SimRequest((T) data0, ...).   *)
(*                                                                         *)
(* The addresses are registered by PYRITE_experimentSetup, which the main *)
(* thread runs before it starts the others: init_channel, then            *)
(* PYRITE_generateRegisterProcessSimRequest(), then                        *)
(* PYRITE_generateRegisterChannelData<i>SimRequest(&data<i>) for each i.   *)
(* Those are requests of the .def file like any other; their handlers     *)
(* (simulator code, not in the repository) are read here as storing the  *)
(* address they receive into virtAddrData<i>.                             *)
(*                                                                         *)
(* Each store is one step; the magic instruction with the simulator's     *)
(* handling of it is one step.                                            *)
(***************************************************************************)
EXTENDS Naturals, Sequences, FiniteSets

CONSTANTS Threads,     \* threads of the simulated program
          Main,        \* the thread that runs PYRITE_experimentSetup
          Requests,    \* request kinds: [nargs |-> 0..3, viaReg |-> BOOLEAN]
          RegRequest,  \* the kind of the RegisterChannelData<i> requests
          Vals,        \* argument values (strings)
          MaxCalls,    \* requests each thread makes after the setup
          MaxRestores, \* bound on restarts from a checkpoint
          NoCheckpoint \* ckpt before the first checkpoint

NumChannels == 3     \* SIMULATOR_REQUEST_NUM_CHANNELS
Chans == 0..NumChannels - 1
NULL == "NULL"       \* a zero pointer or value
ChanAddr(c) == CASE c = 0 -> "&data0" [] c = 1 -> "&data1" [] c = 2 -> "&data2"
Addrs == {ChanAddr(c) : c \in Chans}

ASSUME /\ Main \in Threads /\ RegRequest.nargs = 1
       /\ \A r \in Requests \cup {RegRequest} :
             r.nargs \in 0..NumChannels /\ (r.viaReg => r.nargs >= 1)

ProcessRequest == [nargs |-> 0, viaReg |-> FALSE]
RegisterCall(c) == [req |-> RegRequest, args |-> [a \in {0} |-> ChanAddr(c)], reg |-> {c}]

\* Mutant: RegisterChannelData<i> is passed the address of data<i+1>.
SetupCallsSkewed ==
  <<[req |-> ProcessRequest, args |-> <<>>, reg |-> {}]>>
    \o [n \in 1..NumChannels |->
          [RegisterCall(n - 1) EXCEPT !.args = [a \in {0} |-> ChanAddr(n % NumChannels)]]]

\* The calls of PYRITE_experimentSetup after init_channel:
\* RegisterProcess, then RegisterChannelData<i>(&data<i>) for each i; reg
\* is the set of channels whose virtAddrData the handler sets.
SetupCalls ==
  <<[req |-> ProcessRequest, args |-> <<>>, reg |-> {}]>>
    \o [n \in 1..NumChannels |-> RegisterCall(n - 1)]

VARIABLES
  chan,      \* PYRITE_SIMULATOR_CHANNEL.data0..2 in the program's memory
  virtAddr,  \* the simulator's virtAddrData0..2
  simData,   \* the simulator's data0..2
  pc,        \* per thread: "idle" or "writing" (inside a request function)
  call,      \* per thread: the call in progress
  k,         \* per thread: the next argument to store
  setupDone, \* how many calls of PYRITE_experimentSetup have returned
  calls,     \* per thread: requests made after the setup
  log,       \* each handled request: what was passed and what the handler got
  ckpt,      \* the last Simics checkpoint, NoCheckpoint before any
  restores   \* restarts from a checkpoint so far, bounded by MaxRestores

vars == <<chan, virtAddr, simData, pc, call, k, setupDone, calls, log, ckpt, restores>>
prog == <<chan, virtAddr, simData, pc, call, k, setupDone, calls, log>>

NoCall == [req |-> ProcessRequest, args |-> <<>>, reg |-> {}]

\* Process start: the channel global and the simulator's globals are zero;
\* init_channel stores zeros again.
Init ==
  /\ chan = [c \in Chans |-> NULL]
  /\ virtAddr = [c \in Chans |-> NULL]
  /\ simData = [c \in Chans |-> NULL]
  /\ pc = [t \in Threads |-> "idle"]
  /\ call = [t \in Threads |-> NoCall]
  /\ k = [t \in Threads |-> 0]
  /\ setupDone = 0
  /\ calls = [t \in Threads |-> 0]
  /\ log = <<>>
  /\ ckpt = NoCheckpoint /\ restores = 0

Start(t, c) ==
  /\ call' = [call EXCEPT ![t] = c]
  /\ pc' = [pc EXCEPT ![t] = "writing"] /\ k' = [k EXCEPT ![t] = 0]

\* The main thread makes the next call of PYRITE_experimentSetup.
BeginSetup ==
  /\ pc[Main] = "idle" /\ setupDone < Len(SetupCalls)
  /\ Start(Main, SetupCalls[setupDone + 1])
  /\ UNCHANGED <<chan, virtAddr, simData, setupDone, calls, log, ckpt, restores>>

\* Mutant: a request is made before PYRITE_experimentSetup has returned.
BeginEarly(t) ==
  /\ pc[t] = "idle" /\ calls[t] < MaxCalls
  /\ \E r \in Requests : \E a \in [0..r.nargs - 1 -> Vals] :
       Start(t, [req |-> r, args |-> a, reg |-> {}])
  /\ UNCHANGED <<chan, virtAddr, simData, setupDone, calls, log, ckpt, restores>>

\* After the setup, a thread calls PYRITE_generate<X>SimRequest(args).
Begin(t) ==
  /\ pc[t] = "idle" /\ setupDone = Len(SetupCalls) /\ calls[t] < MaxCalls
  /\ \E r \in Requests : \E a \in [0..r.nargs - 1 -> Vals] :
       Start(t, [req |-> r, args |-> a, reg |-> {}])
  /\ UNCHANGED <<chan, virtAddr, simData, setupDone, calls, log, ckpt, restores>>

\* PYRITE_SIMULATOR_CHANNEL.data<k> = (void*) arg<k>;
WriteArg(t) ==
  /\ pc[t] = "writing" /\ k[t] < call[t].req.nargs
  /\ chan' = [chan EXCEPT ![k[t]] = call[t].args[k[t]]]
  /\ k' = [k EXCEPT ![t] = k[t] + 1]
  /\ UNCHANGED <<virtAddr, simData, pc, call, setupDone, calls, log, ckpt, restores>>

\* passFirstArgViaRegister: the first argument is taken from %ecx and the
\* channel reads start at counter 1 over arguments[1:].
RegArgs(r)      == IF r.viaReg THEN 1 ELSE 0
\* Mutant: the register read does not advance the channel counter.
FirstCounterNoSkip(r) == 0
FirstCounter(r) == IF r.viaReg THEN 1 ELSE 0

\* The channels the switch branch of request r reads from memory.
ChannelReads(r) ==
  {c \in Chans : \E p \in 1..(r.nargs - RegArgs(r)) : FirstCounter(r) + p - 1 = c}

\* The word at address a: the channel member it points to; an address
\* that is no channel member's holds no argument (NULL).
Mem(a) == IF a \in Addrs THEN chan[CHOOSE c \in Chans : ChanAddr(c) = a] ELSE NULL

\* The switch branch of request r: data0 from %ecx
\* when so passed, then data<counter> = readFromMemory(virtAddrData<counter>)
\* for each other argument.
SwitchReads(r, ecx) ==
  LET fromReg == IF r.viaReg THEN [simData EXCEPT ![0] = ecx] ELSE simData
  IN [c \in Chans |-> IF c \in ChannelReads(r) THEN Mem(virtAddr[c]) ELSE fromReg[c]]

\* The asserts of the switch branch: every channel address it reads from
\* has a translation (a zero virtAddrData has none).
AssertsHold(r) == \A c \in ChannelReads(r) : virtAddr[c] # NULL

\* Mutant: a handled request is not counted as made by its thread.
TrapUncounted(t) ==
  /\ pc[t] = "writing" /\ k[t] = call[t].req.nargs
  /\ LET r    == call[t].req
         data == SwitchReads(r, IF r.nargs > 0 THEN call[t].args[0] ELSE NULL)
     IN /\ simData' = data
        /\ log' = Append(log, [thread |-> t, sent |-> call[t].args,
                               got |-> [c \in 0..r.nargs - 1 |-> data[c]]])
        /\ virtAddr' = [c \in Chans |-> IF c \in call[t].reg THEN data[0] ELSE virtAddr[c]]
  /\ setupDone' = IF setupDone < Len(SetupCalls) THEN setupDone + 1 ELSE setupDone
  /\ pc' = [pc EXCEPT ![t] = "idle"]
  /\ UNCHANGED <<chan, call, k, calls, ckpt, restores>>

\* SIMULATOR_REQUEST(2) (its asserts are NoUnmappedRead): the simulator handles the
\* magic instruction before the thread runs on and calls the handler with
\* data0..data<nargs-1>; a RegisterChannelData<i> handler stores its
\* argument in virtAddrData<i>.  The thread returns.
Trap(t) ==
  /\ pc[t] = "writing" /\ k[t] = call[t].req.nargs
  /\ LET r    == call[t].req
         data == SwitchReads(r, IF r.nargs > 0 THEN call[t].args[0] ELSE NULL)
     IN /\ simData' = data
        /\ log' = Append(log, [thread |-> t, sent |-> call[t].args,
                               got |-> [c \in 0..r.nargs - 1 |-> data[c]]])
        /\ virtAddr' = [c \in Chans |-> IF c \in call[t].reg THEN data[0] ELSE virtAddr[c]]
  /\ IF setupDone < Len(SetupCalls)
       THEN setupDone' = setupDone + 1 /\ UNCHANGED calls
       ELSE calls' = [calls EXCEPT ![t] = calls[t] + 1] /\ UNCHANGED setupDone
  /\ pc' = [pc EXCEPT ![t] = "idle"]
  /\ UNCHANGED <<chan, call, k, ckpt, restores>>

\* Simics writes a checkpoint between two instructions: the simulated
\* machine (the program's memory and threads) and every attribute, among
\* them simReqChannelData<i>, whose getter returns virtAddrData<i> as an
\* attribute integer (64 bits, so the address is kept whole).
Save ==
  /\ ckpt' = [chan |-> chan, pc |-> pc, call |-> call, k |-> k, setupDone |-> setupDone,
              calls |-> calls, log |-> log, simReqChannelData |-> virtAddr]
  /\ UNCHANGED <<prog, restores>>

\* Mutant: the simReqChannelData attributes are not restored.
RestoreNoAttrs ==
  /\ ckpt # NoCheckpoint /\ restores < MaxRestores
  /\ chan' = ckpt.chan /\ pc' = ckpt.pc /\ call' = ckpt.call /\ k' = ckpt.k
  /\ setupDone' = ckpt.setupDone /\ calls' = ckpt.calls /\ log' = ckpt.log
  /\ virtAddr' = [c \in Chans |-> NULL] /\ simData' = [c \in Chans |-> NULL]
  /\ restores' = restores + 1 /\ UNCHANGED ckpt

\* The simulator is restarted from the last checkpoint: the machine
\* resumes where it was saved, the simulator's globals start at zero, and
\* Simics calls setSimReqChannelData<i>, which stores the saved integer
\* in virtAddrData<i>.
Restore ==
  /\ ckpt # NoCheckpoint /\ restores < MaxRestores
  /\ chan' = ckpt.chan /\ pc' = ckpt.pc /\ call' = ckpt.call /\ k' = ckpt.k
  /\ setupDone' = ckpt.setupDone /\ calls' = ckpt.calls /\ log' = ckpt.log
  /\ virtAddr' = ckpt.simReqChannelData /\ simData' = [c \in Chans |-> NULL]
  /\ restores' = restores + 1 /\ UNCHANGED ckpt

Next ==
  \/ BeginSetup
  \/ \E t \in Threads : Begin(t) \/ WriteArg(t) \/ Trap(t)
  \/ Save \/ Restore

Spec == Init /\ [][Next]_vars

(* ------------------------------ properties ------------------------------ *)
TypeOK ==
  /\ chan \in [Chans -> Vals \cup Addrs \cup {NULL}]
  /\ virtAddr \in [Chans -> Vals \cup Addrs \cup {NULL}]
  /\ pc \in [Threads -> {"idle", "writing"}]
  /\ k \in [Threads -> 0..NumChannels]
  /\ setupDone \in 0..Len(SetupCalls)
  /\ calls \in [Threads -> 0..MaxCalls]
  /\ Len(log) <= Len(SetupCalls) + MaxCalls * Cardinality(Threads)
  /\ restores \in 0..MaxRestores

\* Every handler call receives exactly the arguments its caller passed:
\* the stores of the request function, the register and the channel reads
\* of the switch branch line up argument by argument.
HandlerGetsCallerArgs == \A n \in 1..Len(log) : log[n].got = log[n].sent

\* No switch branch reads from a channel address that was not registered:
\* whenever a thread reaches its magic instruction, the setup's own
\* registration requests included, the addressHasTranslation asserts of
\* the branch the simulator is about to run hold.
NoUnmappedRead ==
  \A t \in Threads : pc[t] = "writing" /\ k[t] = call[t].req.nargs
                       => AssertsHold(call[t].req)

\* Once the setup is over, every virtAddrData<i> holds the address of
\* PYRITE_SIMULATOR_CHANNEL.data<i>, and keeps it through every later request.
ChannelsRegistered ==
  setupDone = Len(SetupCalls) => \A c \in Chans : virtAddr[c] = ChanAddr(c)

=============================================================================
