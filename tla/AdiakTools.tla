----------------------------- MODULE AdiakTools -----------------------------
(***************************************************************************)
(* The tool side of src/src/adiak.c on top of the record store: the shared *)
(* configuration (adiak_get_config, adiak_init), the list of registered    *)
(* tools, and the dispatch of name/value and control events to their       *)
(* callbacks by adiak_raw_namevalue, adiak_flush, adiak_fini, adiak_clean. *)
(*                                                                         *)
(* The library has no locks and one thread uses it, but its calls nest: a  *)
(* tool's callback runs inside the loop of adiak_raw_namevalue and may     *)
(* itself register pairs and tools and list the records.  The C call stack *)
(* is the variable stack, innermost call first; a step is one turn of a    *)
(* dispatch loop, one call, or one return.                                 *)
(*                                                                         *)
(* A tool is modelled by what a tool keeps: for each name the payload that *)
(* it was last handed (seen).                                              *)
(***************************************************************************)
EXTENDS AdiakStore, Sequences, Functions

CONSTANTS
    ToolKinds,          \* [category, all_ranks, info] of the tools that register
    AppNames,           \* names the application registers, a subset of Names
    CallbackNames,      \* names that callbacks register, a subset of Names
    SameNameReentry,    \* TRUE if a callback may register a name in dispatch
    InitCopies,         \* the copies through which adiak_init is called
    Rank,               \* this process's rank in the communicator
    MaxTools,           \* bound on the tools of one behaviour
    MaxDepth            \* bound on the depth of nested calls

AllCategories == "adiak_category_all"
Control == "adiak_control"
UnsetCategory == "adiak_category_unset"
NoCopy == "no copy"

ASSUME ToolsAssumption ==
    /\ OldCopies = {}
    /\ ToolKinds \subseteq [category : Categories \cup {AllCategories, Control},
                            all_ranks : BOOLEAN, info : BOOLEAN]
    /\ AppNames \subseteq Names /\ CallbackNames \subseteq Names
    /\ SameNameReentry \in BOOLEAN
    /\ InitCopies \subseteq Copies
    /\ \A timer \in {"cputime", "systime", "walltime"} :
          timer \in Names => "performance" \in Categories
    /\ NoCopy \notin Copies
    /\ Rank \in Nat /\ MaxTools \in Nat /\ MaxDepth \in Nat \ {0}

VARIABLES
    adiak_config,         \* the copies that have cached the shared structure
    initialized,          \* the copies whose static initialized flag is set
    reportable_rank, use_mpi, report_on_all_ranks,   \* fields of adiak_t
    tool_list,            \* the copy whose local_tool_list is shared, or NoCopy
    local_tool_list,      \* the tools on each copy's static list
    tool,                 \* the adiak_tool_t records, in order of registration
    measure,              \* the measure_adiak_* flags each copy has set
    stack,                \* calls in progress, innermost first
    seen,                 \* the payload each tool holds for each name
    synced,               \* tools that have listed the records once
    cleaned               \* an adiak_clean has completed

toolVars == <<adiak_config, initialized, reportable_rank, use_mpi,
              report_on_all_ranks, tool_list, local_tool_list, tool, measure,
              stack, seen, synced, cleaned>>
configVars == <<adiak_config, tool_list>>
rankVars == <<initialized, reportable_rank, use_mpi>>
listVars == <<local_tool_list, tool, report_on_all_ranks>>
vars == <<storeVars, toolVars>>

\* What info_ptr leads to when it is NULL, and when it is left pointing at the
\* info variable of an earlier turn of the loop.
NullInfo == "NULL"
StaleInfo == "out of scope"

\* The timers of adiak_fini, in the order it measures them, and those that
\* this instance has.
Timers == <<"cputime", "systime", "walltime">>
TimerNames == {Timers[i] : i \in 1..3} \cap Names
TimersBefore(timer) == {Timers[i] : i \in {j \in 1..3 : \E k \in 1..3 : j < k /\ Timers[k] = timer}}

-----------------------------------------------------------------------------
\* Mutant: the cached pointer is not kept.
GetConfigUncached(c) ==
    /\ UNCHANGED adiak_config
    /\ tool_list' = IF tool_list = NoCopy THEN c ELSE tool_list

\* Mutant: the copy's own list replaces one that is already shared.
GetConfigOwnList(c) ==
    /\ adiak_config' = adiak_config \cup {c}
    /\ tool_list' = IF c \notin adiak_config THEN c ELSE tool_list

\* The first call of adiak_get_config in copy c caches the shared structure
\* and donates the copy's own list head if the structure has none.
adiak_get_config(c) ==
    /\ adiak_config' = adiak_config \cup {c}
    /\ tool_list' = IF c \notin adiak_config /\ tool_list = NoCopy THEN c ELSE tool_list

\* *tool_list: the tools that a loop which starts now will meet.
Tools(owner) == IF owner = NoCopy THEN {} ELSE local_tool_list[owner]

\* The first of the tools in ts, newest first; NULL ends the list.
First(ts) == IF ts = {} THEN NULL ELSE Max(ts)

\* tool->next.
NextTool(t) == First({u \in Tools(tool_list) : u < t})

Running == stack # << >> /\ Head(stack).running

\* Calls come from the application, or from the callback that is running.
\* adiak.h: "Adiak should not be used again" once adiak_clean has completed.
ByApplication == stack = << >> /\ ~cleaned
ByCallback == Running /\ Len(stack) < MaxDepth

\* What is in dispatch: the names of the pairs, and whether Adiak is cleaned.
InDispatch == {stack[i].name : i \in {j \in DOMAIN stack : stack[j].op = "value"}}
InClean == \E i \in DOMAIN stack : stack[i].op = "clean"

\* A call frame of adiak_raw_namevalue about to enter its loop over the tools
\* ts.  info is the category that info_ptr leads to: the record's, or NULL for
\* a control event.  Kept for the properties are ts, the tools called so far, and
\* of adiak_fini the registrations made before it (since) and the timers that it
\* could not read (failed).
Frame(op, c, n, cat, v, ts) ==
    [op |-> op, copy |-> c, name |-> n, category |-> cat, value |-> v,
     info |-> IF cat = Control THEN NullInfo ELSE cat, handed |-> NullInfo,
     timers |-> {}, tool |-> First(ts), running |-> FALSE,
     listed |-> ts, called |-> << >>, since |-> 0, failed |-> {}]

Push(frame) == stack' = <<frame>> \o stack
Pop == stack' = Tail(stack)

-----------------------------------------------------------------------------
Init ==
    /\ StoreInit
    /\ adiak_config = {} /\ initialized = {}
    /\ reportable_rank = TRUE /\ use_mpi = FALSE /\ report_on_all_ranks = FALSE
    /\ tool_list = NoCopy
    /\ local_tool_list = [c \in Copies |-> {}]
    /\ tool = << >>
    /\ measure = [c \in Copies |-> {}]
    /\ stack = << >>
    /\ seen = [t \in 1..MaxTools |-> [n \in Names |-> NULL]]
    /\ synced = {}
    /\ cleaned = FALSE

\* comm: a communicator is passed and MPI is initialized.  A failing
\* MPI_Comm_rank makes adksys_reportable_rank return -1, which is true.
adiak_init(c, comm) ==
    /\ ByApplication
    /\ c \notin initialized
    /\ initialized' = initialized \cup {c}
    /\ adiak_get_config(c)
    /\ use_mpi' = comm
    /\ IF comm THEN reportable_rank' \in {Rank = 0, TRUE} ELSE reportable_rank' = TRUE
    /\ UNCHANGED <<storeVars, listVars, measure, stack, seen, synced, cleaned>>

\* The new tool becomes the head of the list.
adiak_register(c, kind) ==
    /\ ByApplication \/ ByCallback
    /\ Len(tool) < MaxTools
    /\ adiak_get_config(c)
    /\ tool' = Append(tool, kind)
    /\ local_tool_list' = [local_tool_list EXCEPT ![tool_list'] = @ \cup {Len(tool) + 1}]
    /\ report_on_all_ranks' = (report_on_all_ranks \/ kind.all_ranks)
    /\ UNCHANGED <<storeVars, rankVars, measure, stack, seen, synced, cleaned>>

\* Tool t, which watches all categories, catches up with the pairs that were
\* registered before it was, and keeps what it is handed last.
ToolLists(c, t) ==
    /\ ByApplication \/ ByCallback
    /\ t \in DOMAIN tool /\ t \notin synced
    /\ tool[t].category = AllCategories
    /\ adiak_get_config(c)
    /\ seen' = [seen EXCEPT ![t] = [n \in Names |->
           LET rs == {r \in adiak_list_namevals(Categories) : rec[r].name = n}
           IN  IF rs = {} THEN @[n] ELSE rec[Min(rs)].value]]
    /\ synced' = synced \cup {t}
    /\ UNCHANGED <<storeVars, rankVars, listVars, measure, stack, cleaned>>

\* adiak_walltime, adiak_systime, adiak_cputime.
RequestTimer(c, timer) ==
    /\ ByApplication
    /\ measure' = [measure EXCEPT ![c] = @ \cup {timer}]
    /\ UNCHANGED <<storeVars, configVars, rankVars, listVars, stack, seen, synced, cleaned>>

-----------------------------------------------------------------------------
\* Entering adiak_raw_namevalue with a pair: it is recorded before the first
\* tool is called.
EnterNameValue(c, n, cat) ==
    /\ record_nameval(c, n, cat)
    /\ adiak_get_config(c)
    /\ UNCHANGED <<rankVars, listVars, measure, seen, synced, cleaned>>

\* adiak_namevalue and adiak_raw_namevalue, called by the application or by a
\* callback.
adiak_raw_namevalue(c, n, cat) ==
    /\ \/ ByApplication /\ initialized # {} /\ n \in AppNames
       \/ /\ ByCallback /\ ~InClean
          /\ n \in CallbackNames /\ (SameNameReentry \/ n \notin InDispatch)
    /\ EnterNameValue(c, n, cat)
    /\ Push(Frame("value", c, n, cat, now', Tools(tool_list')))

adiak_flush(c) ==
    /\ ByApplication
    /\ adiak_get_config(c)
    /\ Push(Frame("control", c, "flush", Control, NULL, Tools(tool_list')))
    /\ UNCHANGED <<storeVars, rankVars, listVars, measure, seen, synced, cleaned>>

\* adiak_fini first measures the requested timers; its frame has no tool yet.
adiak_fini(c) ==
    /\ ByApplication
    /\ Push([Frame("fini", c, "fini", Control, NULL, {})
                EXCEPT !.timers = measure[c], !.since = now])
    /\ UNCHANGED <<storeVars, configVars, rankVars, listVars, measure, seen, synced, cleaned>>

\* The clean event precedes the freeing, which is in FinishClean.
adiak_clean(c) ==
    /\ ByApplication
    /\ adiak_get_config(c)
    /\ Push(Frame("clean", c, "clean", Control, NULL, Tools(tool_list')))
    /\ UNCHANGED <<storeVars, rankVars, listVars, measure, seen, synced, cleaned>>

-----------------------------------------------------------------------------
InFini == stack # << >> /\ Head(stack).op = "fini"

\* The timer whose turn it is in adiak_fini.
IsNextTimer(timer) ==
    /\ timer \in Head(stack).timers
    /\ TimersBefore(timer) \cap Head(stack).timers = {}

\* One timer of adiak_fini: the clock is read and the pair registered, or
\* reading the clock fails and the timer is passed over.
MeasureTimer(c, timer) ==
    /\ InFini
    /\ Head(stack).copy = c
    /\ IsNextTimer(timer)
    /\ EnterNameValue(c, timer, "performance")
    /\ stack' = <<Frame("value", c, timer, "performance", now', Tools(tool_list')),
                   [Head(stack) EXCEPT !.timers = @ \ {timer}]>> \o Tail(stack)

TimerFails(timer) ==
    /\ InFini
    /\ IsNextTimer(timer)
    /\ stack' = [stack EXCEPT ![1].timers = @ \ {timer}, ![1].failed = @ \cup {timer}]
    /\ UNCHANGED <<storeVars, configVars, rankVars, listVars, measure, seen, synced, cleaned>>

\* The fini event of the adiak_fini that fini is the frame of.
FiniEvent(fini) ==
    [Frame("control", fini.copy, "fini", Control, NULL, Tools(tool_list'))
        EXCEPT !.since = fini.since, !.failed = fini.failed]

\* Mutant: the fini event is raised before the timers are measured.
RaiseFiniFirst ==
    /\ InFini
    /\ adiak_get_config(Head(stack).copy)
    /\ stack' = <<FiniEvent(Head(stack))>> \o Tail(stack)
    /\ UNCHANGED <<storeVars, rankVars, listVars, measure, seen, synced, cleaned>>

\* The timers are done and the fini event is raised.
RaiseFini ==
    /\ InFini
    /\ Head(stack).timers = {}
    /\ adiak_get_config(Head(stack).copy)
    /\ stack' = <<FiniEvent(Head(stack))>> \o Tail(stack)
    /\ UNCHANGED <<storeVars, rankVars, listVars, measure, seen, synced, cleaned>>

-----------------------------------------------------------------------------
\* The top frame is at the head of its dispatch loop, with its cursor at a tool.
AtTool ==
    /\ stack # << >>
    /\ Head(stack).op # "fini"
    /\ ~Head(stack).running
    /\ Head(stack).tool # NULL

\* The filters of adiak_raw_namevalue.
Eligible(t, cat) ==
    /\ tool[t].all_ranks \/ reportable_rank
    /\ tool[t].category \in {AllCategories, cat}

\* Mutant: the turn ends in break.
SkipRestOfTools ==
    /\ AtTool
    /\ ~Eligible(Head(stack).tool, Head(stack).category)
    /\ stack' = [stack EXCEPT ![1].tool = NULL]
    /\ UNCHANGED <<storeVars, configVars, rankVars, listVars, measure, seen, synced, cleaned>>

\* Mutant: continue before the cursor is advanced.
SkipWithoutAdvance ==
    /\ AtTool
    /\ ~Eligible(Head(stack).tool, Head(stack).category)
    /\ UNCHANGED vars

\* A turn of the loop that ends in continue.
SkipTool ==
    /\ AtTool
    /\ ~Eligible(Head(stack).tool, Head(stack).category)
    /\ stack' = [stack EXCEPT ![1].tool = NextTool(@)]
    /\ UNCHANGED <<storeVars, configVars, rankVars, listVars, measure, seen, synced, cleaned>>

\* What an info callback can be handed.  The first one of a control event gets
\* an info filled in this turn; later turns find info_ptr set, to a variable
\* that has gone out of scope and, as a rule, lies where this turn's zeroed
\* info is.
InfoFor(frame) ==
    CASE frame.info = NullInfo  -> {frame.category}
      [] frame.info = StaleInfo -> {frame.category, UnsetCategory}
      [] OTHER                  -> {frame.info}

\* What the callback keeps: the payload of a pair; nothing once it is told of
\* adiak_clean.
Kept(t, frame) ==
    CASE frame.op = "value" -> [seen[t] EXCEPT ![frame.name] = frame.value]
      [] frame.op = "clean" -> [n \in Names |-> NULL]
      [] OTHER              -> seen[t]

\* The tool's callback is called.
CallTool ==
    LET top == Head(stack)
    IN  /\ AtTool
        /\ Eligible(top.tool, top.category)
        /\ \E handed \in IF tool[top.tool].info THEN InfoFor(top) ELSE {NullInfo} :
              stack' = [stack EXCEPT ![1] =
                  [top EXCEPT !.running = TRUE, !.handed = handed,
                              !.called = Append(top.called, top.tool),
                              !.info = IF tool[top.tool].info /\ top.info = NullInfo
                                       THEN StaleInfo ELSE top.info]]
        /\ seen' = [seen EXCEPT ![top.tool] = Kept(top.tool, top)]
        /\ UNCHANGED <<storeVars, configVars, rankVars, listVars, measure, synced, cleaned>>

\* The callback returns and the loop goes on to tool->next.
ToolReturns ==
    /\ Running
    /\ stack' = [stack EXCEPT ![1].running = FALSE, ![1].tool = NextTool(@)]
    /\ UNCHANGED <<storeVars, configVars, rankVars, listVars, measure, seen, synced, cleaned>>

LoopDone ==
    /\ stack # << >>
    /\ Head(stack).op # "fini"
    /\ ~Head(stack).running
    /\ Head(stack).tool = NULL

\* adiak_raw_namevalue returns, and with it adiak_flush or adiak_fini.
FinishCall ==
    /\ LoopDone
    /\ Head(stack).op # "clean"
    /\ Pop
    /\ UNCHANGED <<storeVars, configVars, rankVars, listVars, measure, seen, synced, cleaned>>

\* Mutant: the records are freed and the chains forgotten.
FinishCleanKeepingHash ==
    /\ LoopDone
    /\ Head(stack).op = "clean"
    /\ rec' = << >>
    /\ UNCHANGED <<now, minimum_version, record_hash, local_record_hash>>
    /\ tool_list' = NoCopy
    /\ cleaned' = TRUE
    /\ Pop
    /\ UNCHANGED <<adiak_config, rankVars, listVars, measure, seen, synced>>

\* The rest of adiak_clean: the records and the tools are freed, and the shared
\* structure is left without a tool list.  The list head itself keeps pointing
\* at a freed tool.
FinishClean ==
    /\ LoopDone
    /\ Head(stack).op = "clean"
    /\ FreeRecords(Head(stack).copy)
    /\ tool_list' = NoCopy
    /\ cleaned' = TRUE
    /\ Pop
    /\ UNCHANGED <<adiak_config, rankVars, listVars, measure, seen, synced>>

-----------------------------------------------------------------------------
\* What runs on its own once a call has been made: the code between two
\* decisions of the application or of a callback.
Dispatch ==
    \/ \E c \in Copies, timer \in TimerNames : MeasureTimer(c, timer)
    \/ \E timer \in TimerNames : TimerFails(timer)
    \/ RaiseFini
    \/ SkipTool
    \/ CallTool
    \/ ToolReturns
    \/ FinishCall
    \/ FinishClean

Next ==
    \/ \E c \in InitCopies, comm \in BOOLEAN : adiak_init(c, comm)
    \/ \E c \in Copies, kind \in ToolKinds : adiak_register(c, kind)
    \/ \E c \in Copies, t \in 1..MaxTools : ToolLists(c, t)
    \/ \E c \in Copies, timer \in TimerNames : RequestTimer(c, timer)
    \/ \E c \in Copies, n \in Names, cat \in Categories : adiak_raw_namevalue(c, n, cat)
    \/ \E c \in Copies : adiak_flush(c) \/ adiak_fini(c) \/ adiak_clean(c)
    \/ Dispatch

Spec == Init /\ [][Next]_vars

\* The calling thread keeps running: a loop that can turn turns, and callbacks
\* return (each makes a bounded number of calls of its own).
FairSpec == Spec /\ WF_vars(Dispatch)

-----------------------------------------------------------------------------
Value(n) ==
    LET rs == {r \in DOMAIN rec : rec[r].name = n}
    IN  IF rs = {} THEN NULL ELSE rec[Max(rs)].value

Payloads == {rec[r].value : r \in DOMAIN rec}

FrameOK(f) ==
    /\ f.op \in {"value", "control", "fini", "clean"}
    /\ f.copy \in Copies
    /\ f.op = "value" => f.name \in Names /\ f.category \in Categories
    /\ f.op # "value" => f.category = Control
    /\ f.value \in 0..now
    /\ f.tool \in 0..Len(tool) /\ f.running \in BOOLEAN
    /\ f.running => f.tool # NULL

\* Type invariant of the dispatcher's state in src/src/adiak.c.
TypeOK ==
    /\ StoreTypeOK
    /\ adiak_config \subseteq Copies /\ initialized \subseteq InitCopies
    /\ {reportable_rank, use_mpi, report_on_all_ranks, cleaned} \subseteq BOOLEAN
    /\ tool_list \in adiak_config \cup {NoCopy}
    /\ tool \in Seq(ToolKinds) /\ Len(tool) <= MaxTools
    /\ local_tool_list \in [Copies -> SUBSET (1..Len(tool))]
    /\ measure \in [Copies -> SUBSET TimerNames]
    /\ Len(stack) <= MaxDepth + 1 /\ \A i \in DOMAIN stack : FrameOK(stack[i])
    /\ seen \in [1..MaxTools -> [Names -> 0..now]]
    /\ synced \subseteq 1..Len(tool)

\* A tool that watches all categories and has caught up once holds, whenever no
\* call is in progress, exactly the pairs that a query would answer: no
\* interleaving of nested registrations, late tools, lists and filters loses an
\* event or leaves an old value behind (adiak_raw_namevalue, adiak_register,
\* adiak_list_namevals).
MirrorCurrent ==
    stack = << >> /\ ~cleaned =>
        \A t \in synced : (tool[t].all_ranks \/ reportable_rank) =>
            \A n \in Names : seen[t][n] = Value(n)

\* A payload that a tool is about to be handed is allocated: the loop keeps value,
\* type and info pointers across callbacks that may register pairs.  The code does not
\* see to it where a callback registers the name in dispatch.
DeliveredLive ==
    AtTool /\ Head(stack).op = "value" /\ Eligible(Head(stack).tool, Head(stack).category)
        => Head(stack).value \in Payloads

\* The pairs that adiak_raw_namevalue still has to hand to tools, or that a callback
\* is looking at.
Pending(f) == f.op = "value" /\ (f.running \/ f.tool # NULL)

\* What callbacks can free under a dispatch loop: a payload that is still to be
\* handed to tools is allocated unless a callback has registered its name again,
\* and nothing that callbacks register under other names, nor any list of the
\* records, nor an event touches it, at any depth of nesting.
PendingOrReplaced ==
    \A i \in DOMAIN stack : Pending(stack[i]) =>
        \E r \in DOMAIN rec :
            /\ rec[r].name = stack[i].name
            /\ rec[r].value = stack[i].value \/ rec[r].value > stack[i].value

\* When a dispatch loop ends, the tools that were on the list when it began
\* and pass its filters have been called once each, the newest first: tools
\* that callbacks add while it runs are neither called for the event nor make
\* the loop miss or repeat others.
CalledOnceInOrder ==
    LoopDone =>
        LET f == Head(stack)
            ts == {t \in f.listed : Eligible(t, f.category)}
        IN  /\ Range(f.called) = ts
            /\ \A i, j \in DOMAIN f.called : i < j => f.called[i] > f.called[j]

\* When tools hear of "fini", this adiak_fini is done with all else: each timer
\* that was asked for has been read since it began and recorded, or could not be
\* read, the tools that watch all categories hold what was recorded, and nothing is
\* left to do below the event.
FiniIsLast ==
    \A i \in DOMAIN stack : stack[i].name = "fini" /\ stack[i].op = "control" =>
        /\ i = Len(stack)
        /\ \A n \in measure[stack[i].copy] \ stack[i].failed :
              /\ Value(n) > stack[i].since
              /\ \A t \in stack[i].listed \cap synced :
                    Eligible(t, "performance") => seen[t][n] = Value(n)

\* An info callback is handed an info block of the event's category
\* (adiak_record_info_t.category in src/include/adiak_tool.h).
InfoMatchesEvent ==
    Running /\ tool[Head(stack).tool].info => Head(stack).handed = Head(stack).category

\* A payload that a tool holds has not been freed, whenever no call is in
\* progress.
RetainedLive ==
    stack = << >> => \A t \in DOMAIN tool : \A n \in Names : seen[t][n] \in Payloads \cup {NULL}

\* Once adiak_init has been called, further calls have no effect on the rank and
\* MPI settings, nor has anything else.  A call through a second copy of the library
\* has.
InitOnce == [][initialized # {} => UNCHANGED <<reportable_rank, use_mpi>>]_vars

\* Every call of the library returns: the dispatch loops end although callbacks
\* extend the tool list and start further loops while they run.
CallsReturn == stack # << >> ~> stack = << >>

\* The record store, under the dispatcher, behaves as AdiakStore specifies.
ImplementsAdiakStore == StoreSpec
=============================================================================
