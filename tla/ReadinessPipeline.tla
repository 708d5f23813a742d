------------------------- MODULE ReadinessPipeline -------------------------
(***************************************************************************)
(* The review artifacts of tools/live_automation_readiness: a chain of     *)
(* JSON files, each computed from the ones before it, that ends in "ready  *)
(* for the adapter review".  One operator decision enters the chain: an    *)
(* approval file that names the hash of the review packet it approves.     *)
(*                                                                         *)
(* Every builder has the same shape.  build_X(operator_approval_json,      *)
(* write, refresh_sources) finds the approval file, then either rebuilds   *)
(* its inputs (they rebuild theirs, and save them only when both flags are *)
(* set) or reads the saved ones, and computes and saves its own payload.   *)
(* A build is therefore a tree of calls that takes minutes and looks many  *)
(* times at a world that moves on meanwhile: the trading policy, the       *)
(* terminal's dashboard and the approval files belong to other programs.   *)
(* "stack" is the call stack of the one command that is going on; what     *)
(* remains of it at the end is its answer.                                 *)
(***************************************************************************)
EXTENDS Naturals, Sequences, FiniteSets

CONSTANTS
    Contracts,   \* what a lane contract may say (lots, entry mode, limits)
    NoContract,  \* no lane qualifies for a review
    Tools,       \* the commands run: <<stage, refresh_sources>>
    MaxRuns,     \* tool runs
    MaxChanges,  \* changes of the world
    MaxFilings   \* approvals the operator files

ASSUME PipelineAssumption ==
    /\ NoContract \notin Contracts
    /\ MaxRuns \in Nat /\ MaxChanges \in Nat /\ MaxFilings \in Nat

VARIABLES
    world,     \* what the policy, promotion and dashboard files say now
    files,     \* the approval files that exist
    bound,     \* the review packet hash each approval file names
    saved,     \* the artifact files
    cache,     \* packets memoised by this process, per refresh flag
    stack,     \* calls under way, the command first, the innermost last
    run,       \* the command being run and the approval it starts with
    seen,      \* world and approvals at each moment of the run (history)
    filed,     \* hashes ever approved by the operator (history)
    budget     \* runs, changes and filings so far

pvars == <<world, files, bound, saved, cache, stack, run, seen, filed, budget>>

(***************************************************************************)
(* Stages.  A payload keeps the fields later stages look at: the verdict,  *)
(* whether the data plane is ready, whether only the execution mode holds  *)
(* it back, the review packet hash, the dry-run intent, the approval file, *)
(* and whether it has rows (approved lanes, intents or lane contracts).    *)
(***************************************************************************)
Saved  == {"readiness", "packet", "draft", "evidence", "plan", "lane",
           "replay", "preflight", "contract", "pipeline", "adapter",
           "sandbox", "validator", "orchestrator"}
Stages == Saved \cup {"absent"}

ASSUME ToolsAreCommands == Tools \subseteq Saved \X BOOLEAN

\* Builders that look for an approval file when they are given none.
Resolving == {"lane", "replay", "preflight", "contract", "pipeline",
              "orchestrator"}

Paths  == {"explicit", "default"}
NoPath == "none"

Hashes   == [contract : Contracts \cup {NoContract}, fresh : BOOLEAN]
NoHash   == [contract |-> NoContract, fresh |-> TRUE]
Intents  == [example : Contracts \cup {NoContract}, hash : Hashes]
NoIntent == [example |-> NoContract, hash |-> NoHash]

Payload ==
    [stage : Stages, ok : BOOLEAN, plane : BOOLEAN, modeOnly : BOOLEAN,
     hash : Hashes, intent : Intents, path : Paths \cup {NoPath},
     rows : BOOLEAN]

Blank(s) == [stage |-> s, ok |-> FALSE, plane |-> FALSE, modeOnly |-> FALSE,
             hash |-> NoHash, intent |-> NoIntent, path |-> NoPath,
             rows |-> FALSE]
Absent   == Blank("absent")

World == [contract : Contracts \cup {NoContract}, fresh : BOOLEAN,
          probe : BOOLEAN, mode : BOOLEAN]

\* _approval_packet_hash: a digest of the candidate contracts.  A contract
\* lists the lane's blockers, so it changes when the runtime goes stale.
HashOf(w) == IF w.contract = NoContract THEN NoHash
             ELSE [contract |-> w.contract, fresh |-> w.fresh]

Now == [world |-> world, files |-> files, bound |-> bound]

\* The readiness of the lane, and the review packet made from it.
Readiness(w) ==
    [Blank("readiness") EXCEPT !.ok = w.contract # NoContract,
                               !.hash = HashOf(w)]

Copied(s, in) == [Blank(s) EXCEPT !.ok = in[1].ok, !.hash = in[1].hash]

(***************************************************************************)
(* Calls.  Build(s, w, r, p) is build_s(write=w, refresh_sources=r,        *)
(* operator_approval_json=p); Read(s) is read_s; "either" lets             *)
(* _saved_or_built decide when the call is made.  A frame of the stack is  *)
(* a call being answered, the calls it makes and the answers it has got.   *)
(***************************************************************************)
Call(op, s, w, r, p) ==
    [op |-> op, stage |-> s, write |-> w, refresh |-> r, path |-> p]

Build(s, w, r, p) == Call("build", s, w, r, p)
Read(s)           == Call("read", s, FALSE, FALSE, NoPath)

Frame(call, calls) == [call |-> call, calls |-> calls, got |-> <<>>]
Shell(calls) == Frame(Call("shell", "absent", FALSE, FALSE, NoPath), calls)

Top  == stack[Len(stack)]
Full(f) == Len(f.got) = Len(f.calls)
Idle == Len(stack) = 1 /\ Full(Top)

\* The commands for the review packet and the approval draft ran once: there is
\* something to approve.
PInit ==
    /\ world \in [contract : Contracts, fresh : {TRUE}, probe : {TRUE},
                  mode : BOOLEAN]
    /\ files = {}
    /\ bound = [p \in Paths |-> NoHash]
    /\ saved = [s \in Saved |->
                  CASE s = "readiness" -> Readiness(world)
                    [] s \in {"packet", "draft"} ->
                         Copied(s, <<Readiness(world)>>)
                    [] OTHER           -> Absent]
    /\ cache = [r \in BOOLEAN |-> Absent]
    /\ stack = <<Shell(<<>>)>>
    /\ run = [stage |-> "absent", refresh |-> FALSE, path |-> NoPath]
    /\ seen = {}
    /\ filed = {}
    /\ budget = [runs |-> 0, changes |-> 0, filings |-> 0]

-----------------------------------------------------------------------------
(***************************************************************************)
(* The world.                                                              *)
(***************************************************************************)
\* History only: while a run is under way, what it may have looked at.
Witness(w, fs, b) ==
    seen' = IF Idle THEN seen
            ELSE seen \cup {[world |-> w, files |-> fs, bound |-> b]}

Spend(what, max) ==
    /\ budget[what] < max
    /\ budget' = [budget EXCEPT ![what] = @ + 1]

\* The strategy policy and the promotion decision are rewritten, or the
\* dashboard shows other runtime probes or another execution mode.
ChangeWorld ==
    /\ Spend("changes", MaxChanges)
    /\ \E field \in DOMAIN world :
         \E value \in IF field = "contract" THEN Contracts \cup {NoContract}
                      ELSE BOOLEAN :
           /\ world[field] # value
           /\ world' = [world EXCEPT ![field] = value]
    /\ Witness(world', files, bound)
    /\ UNCHANGED <<files, bound, saved, cache, stack, run, filed>>

\* The operator fills in the template of the approval draft on disk, which
\* names the hash of the packet it was made from.
FileApproval ==
    /\ Spend("filings", MaxFilings)
    /\ saved["draft"].ok
    /\ \E p \in Paths :
         /\ files' = files \cup {p}
         /\ bound' = [bound EXCEPT ![p] = saved["draft"].hash]
    /\ filed' = filed \cup {saved["draft"].hash}
    /\ Witness(world, files', bound')
    /\ UNCHANGED <<world, saved, cache, stack, run>>

WithdrawApproval ==
    /\ Spend("changes", MaxChanges)
    /\ \E p \in files : files' = files \ {p}
    /\ Witness(world, files', bound)
    /\ UNCHANGED <<world, bound, saved, cache, stack, run, filed>>

-----------------------------------------------------------------------------
(***************************************************************************)
(* Which approval file a builder uses.                                     *)
(***************************************************************************)
DefaultApproval == IF "default" \in files THEN "default" ELSE NoPath

\* operator_approval_json_for_refresh with no explicit path: a refresh takes
\* the file of the last evidence review if that accepted it and it exists.
ApprovalForRefresh(refresh) ==
    IF /\ refresh
       /\ saved["evidence"].ok
       /\ saved["evidence"].path \in files
    THEN saved["evidence"].path
    ELSE DefaultApproval

Source(again, s, w, r, p) == IF again THEN Build(s, w, r, p) ELSE Read(s)

RebuildOrRead(again, ss, w, r, p) ==
    [i \in DOMAIN ss |-> Source(again, ss[i], w, r, p)]

\* build_live_execution_review_packet and build_live_operator_approval_draft:
\* only refresh_sources makes them rebuild what they start from.
PacketInputs(w, r) == RebuildOrRead(r, <<"readiness">>, w, r, NoPath)
DraftInputs(w, r)  == RebuildOrRead(r, <<"packet">>, w, r, NoPath)

\* Mutant: the evidence review refreshes nothing.
EvidenceOfSavedPacket(w, r) == <<Build("draft", FALSE, FALSE, NoPath)>>

\* The draft is never read back by the evidence review or the plan.
EvidenceInputs(w, r) == <<Build("draft", w /\ r, r, NoPath)>>
PlanInputs(w, r)     ==
    <<Source(r, "packet", w, r, NoPath), Build("draft", w, r, NoPath)>>

Chain == <<"readiness", "packet", "draft", "evidence", "plan", "lane",
           "replay", "preflight", "contract">>

Everything == <<"readiness", "packet", "draft", "evidence", "plan", "lane",
                "replay", "preflight", "contract", "pipeline", "adapter",
                "sandbox", "validator">>

PipelineInputs(w, r, p) == RebuildOrRead(TRUE, Chain, w, r, p)

\* _saved_or_built decides for each artifact when its turn comes.
OrchestratorInputs(w, r, p) ==
    [i \in DOMAIN Everything |-> Call("either", Everything[i], w, r, p)]

\* Mutant: the replay asks the preflight, which asks the replay.
InputStagesLoop(s) ==
    CASE s = "lane"      -> <<"evidence", "plan">>
      [] s = "replay"    -> <<"lane", "preflight">>
      [] s = "preflight" -> <<"replay", "lane">>
      [] s = "contract"  -> <<"preflight">>
      [] s = "adapter"   -> <<"pipeline", "contract">>
      [] s = "sandbox"   -> <<"contract", "adapter">>
      [] s = "validator" -> <<"contract", "sandbox">>

InputStages(s) ==
    CASE s = "lane"      -> <<"evidence", "plan">>
      [] s = "replay"    -> <<"lane", "plan">>
      [] s = "preflight" -> <<"replay", "lane">>
      [] s = "contract"  -> <<"preflight">>
      [] s = "adapter"   -> <<"pipeline", "contract">>
      [] s = "sandbox"   -> <<"contract", "adapter">>
      [] s = "validator" -> <<"contract", "sandbox">>

\* Mutant: only an approval makes a stage rebuild its inputs.
InputsPathOnly(s, w, r, p) ==
    CASE s = "readiness" -> <<>>
      [] s = "packet"    -> PacketInputs(w, r)
      [] s = "draft"     -> DraftInputs(w, r)
      [] s = "evidence"  -> EvidenceInputs(w, r)
      [] s = "plan"      -> PlanInputs(w, r)
      [] s = "pipeline"  -> PipelineInputs(w, r, p)
      [] s = "orchestrator" -> OrchestratorInputs(w, r, p)
      [] OTHER -> RebuildOrRead(p # NoPath, InputStages(s), w /\ r, r, p)

\* should_rebuild = refresh_sources or operator_approval_json; what is
\* rebuilt on the way is saved only by a writing, refreshing build.
Inputs(s, w, r, p) ==
    CASE s = "readiness" -> <<>>
      [] s = "packet"    -> PacketInputs(w, r)
      [] s = "draft"     -> DraftInputs(w, r)
      [] s = "evidence"  -> EvidenceInputs(w, r)
      [] s = "plan"      -> PlanInputs(w, r)
      [] s = "pipeline"  -> PipelineInputs(w, r, p)
      [] s = "orchestrator" -> OrchestratorInputs(w, r, p)
      [] OTHER -> RebuildOrRead(r \/ p # NoPath, InputStages(s),
                                w /\ r, r, p)

-----------------------------------------------------------------------------
(***************************************************************************)
(* What each builder computes from the payloads of its inputs (the         *)
(* sequence in) and, for three of them, from the world.                    *)
(***************************************************************************)
\* Mutant: whatever packet the approval names.
EvidenceAnyHash(p, in) ==
    [Blank("evidence") EXCEPT
       !.ok = p \in files /\ in[1].ok,
       !.hash = in[1].hash, !.path = p, !.rows = p \in files]

\* Accepted only for the very hash of the draft; approved lanes are the
\* file's, accepted or not.
Evidence(p, in) ==
    [Blank("evidence") EXCEPT
       !.ok = p \in files /\ in[1].ok /\ bound[p] = in[1].hash,
       !.hash = in[1].hash, !.path = p, !.rows = p \in files]

\* The contract of the packet read first, the hash of the draft built next:
\* with refresh_sources the draft comes from a second look at the world.
Plan(in) ==
    [Blank("plan") EXCEPT
       !.ok = in[1].ok, !.hash = in[2].hash, !.rows = in[1].ok,
       !.intent = IF in[1].ok THEN [example |-> in[1].hash.contract,
                                    hash |-> in[2].hash]
                  ELSE NoIntent]

\* Intents are selected by lane, not by hash.
LaneSpec(in) ==
    LET rows == in[1].rows /\ in[2].rows
    IN  [Blank("lane") EXCEPT
           !.ok = in[1].ok /\ rows, !.hash = in[1].hash, !.rows = rows,
           !.intent = IF rows THEN in[2].intent ELSE NoIntent]

Replay(in) ==
    [Blank("replay") EXCEPT
       !.ok = in[1].ok /\ in[2].rows /\ in[1].intent = in[2].intent,
       !.hash = in[1].hash, !.intent = in[2].intent, !.rows = in[2].rows]

\* A replayed intent that this lane spec does not list has no risk limits,
\* and fails.
Preflight(p, in) ==
    LET plane == /\ in[1].ok /\ in[2].ok
                 /\ in[1].intent = in[2].intent
                 /\ world.probe
    IN  [Blank("preflight") EXCEPT
           !.ok = plane /\ world.mode, !.plane = plane,
           !.modeOnly = plane /\ ~world.mode, !.hash = in[1].hash,
           !.intent = in[1].intent, !.path = p, !.rows = in[1].rows]

\* Mutant: the payload keeps the name of its input.
OrderContractUnnamed(in) == [in[1] EXCEPT !.ok = in[1].ok /\ in[1].rows]

OrderContract(in) == [in[1] EXCEPT !.stage = "contract",
                                   !.ok = in[1].ok /\ in[1].rows]

\* Ready is what the last of the nine inputs says.
Pipeline(in) ==
    [Blank("pipeline") EXCEPT
       !.ok = in[9].ok,
       !.plane = /\ \A i \in {1, 2, 4, 5, 6, 7} : in[i].ok
                 /\ in[8].plane /\ in[9].plane,
       !.modeOnly = in[8].modeOnly \/ in[9].modeOnly,
       !.hash = in[4].hash]

Adapter(in) ==
    LET plane    == (in[1].ok \/ in[1].plane) /\ in[2].plane
        modeOnly == in[1].modeOnly \/ in[2].modeOnly
    IN  [Blank("adapter") EXCEPT
           !.ok = in[1].ok /\ in[2].ok /\ ~(plane /\ modeOnly),
           !.plane = plane, !.modeOnly = modeOnly, !.hash = in[2].hash]

Sandbox(in) ==
    LET plane    == in[1].plane /\ (in[2].ok \/ in[2].plane) /\ in[1].rows
        modeOnly == in[1].modeOnly \/ in[2].modeOnly
    IN  [Blank("sandbox") EXCEPT
           !.ok = in[1].ok /\ in[2].ok /\ in[1].rows /\ ~(plane /\ modeOnly),
           !.plane = plane, !.modeOnly = modeOnly, !.hash = in[1].hash,
           !.rows = in[1].rows]

\* The sandbox's sample requests are given the contract's hashes before
\* they are compared with them; the sandbox's own verdict is not asked for.
Validator(in) ==
    [Blank("validator") EXCEPT
       !.ok = in[1].ok /\ in[2].rows, !.plane = in[1].plane /\ in[2].rows,
       !.modeOnly = in[1].modeOnly, !.hash = in[1].hash,
       !.rows = in[2].rows]

Orchestrator(in) ==
    [Blank("orchestrator") EXCEPT !.ok = \A i \in 10..13 : in[i].ok]

Result(s, p, in) ==
    CASE s = "readiness"           -> Readiness(world)
      [] s \in {"packet", "draft"} -> Copied(s, in)
      [] s = "evidence"            -> Evidence(p, in)
      [] s = "plan"                -> Plan(in)
      [] s = "lane"                -> LaneSpec(in)
      [] s = "replay"              -> Replay(in)
      [] s = "preflight"           -> Preflight(p, in)
      [] s = "contract"            -> OrderContract(in)
      [] s = "pipeline"            -> Pipeline(in)
      [] s = "adapter"             -> Adapter(in)
      [] s = "sandbox"             -> Sandbox(in)
      [] s = "validator"           -> Validator(in)
      [] s = "orchestrator"        -> Orchestrator(in)

-----------------------------------------------------------------------------
(***************************************************************************)
(* A tool run: one command, a process of its own.                          *)
(***************************************************************************)
StartRun ==
    /\ Idle
    /\ Spend("runs", MaxRuns)
    /\ \E tool \in Tools, p \in Paths \cup {NoPath} :
         /\ p = "explicit" => p \in files
         /\ p # "default"
         /\ stack' = <<Shell(<<Build(tool[1], TRUE, tool[2], p)>>)>>
         /\ run' = [stage |-> tool[1], refresh |-> tool[2],
                    path |-> IF p # NoPath \/ tool[1] = "evidence" THEN p
                             ELSE ApprovalForRefresh(tool[2])]
    /\ cache' = [r \in BOOLEAN |-> Absent]
    /\ seen' = {Now}
    /\ UNCHANGED <<world, files, bound, saved, filed>>

\* The call that is made next, for the innermost frame that lacks an answer.
Calling == ~Full(Top)
Callee  == Top.calls[Len(Top.got) + 1]

\* It returns a value at once, it becomes another call, or a frame is pushed.
Finish(value) ==
    stack' = [stack EXCEPT ![Len(stack)].got = Append(@, value)]

Become(call) ==
    stack' = [stack EXCEPT ![Len(stack)].calls[Len(Top.got) + 1] = call]

Push(frame) == stack' = Append(stack, frame)

\* build_s up to the point where its inputs are known.
BuildInputs ==
    /\ Calling
    /\ LET c == Callee
           p == IF c.stage \in Resolving /\ c.path = NoPath
                THEN ApprovalForRefresh(c.refresh) ELSE c.path
       IN  /\ c.op = "build"
           /\ IF /\ c.stage = "packet" /\ ~c.write
                 /\ cache[c.refresh] # Absent
              THEN Finish(cache[c.refresh])
              ELSE Push(Frame([c EXCEPT !.path = p],
                              Inputs(c.stage, c.write, c.refresh, p)))
    /\ UNCHANGED <<world, files, bound, saved, cache, run, seen, filed,
                   budget>>

\* A saved preflight that was waiting without an approval is rebuilt when
\* an approval can be found now.
Outdated(payload) ==
    /\ payload.stage = "preflight"
    /\ ~payload.ok /\ ~payload.modeOnly /\ payload.path = NoPath
    /\ ApprovalForRefresh(TRUE) # NoPath

\* _saved_or_built: the saved artifact if there is one and nothing asks
\* for a new one.
SavedOrBuilt ==
    /\ Calling
    /\ Callee.op = "either"
    /\ Become(IF /\ ~Callee.refresh /\ Callee.path = NoPath
                 /\ saved[Callee.stage] # Absent
              THEN Read(Callee.stage)
              ELSE [Callee EXCEPT !.op = "build"])
    /\ UNCHANGED <<world, files, bound, saved, cache, run, seen, filed,
                   budget>>

\* read_s: the saved payload, else a build of its own that saves nothing.
\* A missing readiness or preflight is not built, and a missing pipeline
\* is put together from what can be read, never ready.
ReadMissing(s) ==
    CASE s \in {"readiness", "preflight"} -> Finish(Blank(s))
      [] s = "pipeline" ->
           Push(Frame(Read(s), RebuildOrRead(FALSE, Chain, FALSE, FALSE,
                                             NoPath)))
      [] OTHER -> Become(Build(s, FALSE, FALSE, NoPath))

ReadSaved ==
    /\ Calling
    /\ Callee.op = "read"
    /\ LET s == Callee.stage
       IN  IF saved[s] = Absent THEN ReadMissing(s)
           ELSE IF Outdated(saved[s])
                THEN Become(Build(s, FALSE, TRUE, NoPath))
           ELSE Finish(saved[s])
    /\ UNCHANGED <<world, files, bound, saved, cache, run, seen, filed,
                   budget>>

\* The rest of build_s, after its inputs returned: the payload is saved and
\* returned to the caller.
Make ==
    /\ Full(Top) /\ Len(stack) > 1
    /\ LET c      == Top.call
           result == IF c.op = "read"
                     THEN [Pipeline(Top.got) EXCEPT !.ok = FALSE]
                     ELSE Result(c.stage, c.path, Top.got)
           outer  == SubSeq(stack, 1, Len(stack) - 1)
       IN  /\ stack' = [outer EXCEPT ![Len(outer)].got = Append(@, result)]
           /\ saved' = IF c.write THEN [saved EXCEPT ![c.stage] = result]
                       ELSE saved
           /\ cache' =
                IF c.stage = "packet" /\ ~c.write
                THEN [cache EXCEPT ![c.refresh] = result]
                ELSE IF c.stage = "readiness" /\ c.write
                THEN [r \in BOOLEAN |-> Absent] ELSE cache
    /\ UNCHANGED <<world, files, bound, run, seen, filed, budget>>

RunStep == BuildInputs \/ SavedOrBuilt \/ ReadSaved \/ Make
PNext   == ChangeWorld \/ FileApproval \/ WithdrawApproval \/ StartRun
               \/ RunStep
PSpec   == PInit /\ [][PNext]_pvars
-----------------------------------------------------------------------------
(***************************************************************************)
(* Properties.                                                             *)
(***************************************************************************)
CallOps == {"shell", "build", "read", "either"}
Calls   == [op : CallOps, stage : Stages, write : BOOLEAN, refresh : BOOLEAN,
            path : Paths \cup {NoPath}]

\* Types; every caller gets the answers to its own calls, in their order.
PTypeOK ==
    /\ world \in World
    /\ files \subseteq Paths
    /\ bound \in [Paths -> Hashes]
    /\ saved \in [Saved -> Payload]
    /\ cache \in [BOOLEAN -> Payload]
    /\ \A s \in Saved : saved[s].stage \in {s, "absent"}
    /\ stack # <<>>
    /\ \A i \in DOMAIN stack :
         /\ stack[i].call \in Calls
         /\ \A k \in DOMAIN stack[i].calls : stack[i].calls[k] \in Calls
         /\ Len(stack[i].got) <= Len(stack[i].calls)
         /\ \A k \in DOMAIN stack[i].got :
              /\ stack[i].got[k] \in Payload
              /\ stack[i].got[k].stage = stack[i].calls[k].stage

\* The verdicts that go with the hash they are about.  The pipeline takes its
\* verdict from the request contract and its hash from the evidence review, and
\* the two may be about different packets.
Verdicts == {"evidence", "lane", "replay", "preflight", "contract",
             "adapter", "sandbox", "validator"}

\* No verdict on disk or in the making is ready for a review packet that the
\* operator never approved, however stale its inputs were.
ApprovalBacked ==
    /\ \A s \in Verdicts : saved[s].ok => saved[s].hash \in filed
    /\ \A i \in DOMAIN stack : \A k \in DOMAIN stack[i].got :
         LET value == stack[i].got[k]
         IN  value.stage \in Verdicts /\ value.ok => value.hash \in filed

Ended  == Idle /\ run.stage \in Saved
Answer == stack[1].got[1]

\* The stages whose verdict also needs the runtime probes and the mode.
Probing == {"preflight", "contract", "pipeline", "adapter", "sandbox",
            "validator", "orchestrator"}

\* What the verdict of a refreshing command ought to be, given one state of
\* the world and one approval.
Deserved(stage, now, approvals) ==
    /\ now.world.contract # NoContract
    /\ \E p \in approvals \cap now.files : now.bound[p] = HashOf(now.world)
    /\ stage \in Probing => now.world.probe /\ now.world.mode

\* A refreshing command during which nothing changed says "ready" if the
\* approval it starts with deserves it, and only if some approval on disk
\* does: nothing saved earlier can turn its verdict.
CalmRefreshExact ==
    Ended /\ run.refresh /\ run.stage \in Verdicts \cup Probing
          /\ Cardinality(seen) = 1 =>
      \A now \in seen :
        /\ Deserved(run.stage, now, {run.path}) => Answer.ok
        /\ Answer.ok => Deserved(run.stage, now, Paths)

\* A refreshing command says "ready" only if, at some moment of that very
\* run, an approval of the hash it reports was on disk and, for the stages
\* that probe, the probes and the mode were good at some moment.
RefreshUsesThisRun ==
    Ended /\ run.refresh /\ run.stage \in Verdicts /\ Answer.ok =>
      /\ \E now \in seen, p \in Paths :
           p \in now.files /\ now.bound[p] = Answer.hash
      /\ \E now \in seen : HashOf(now.world) = Answer.hash
      /\ run.stage \in Probing =>
           \E now \in seen : now.world.probe /\ now.world.mode

\* No builder waits for another call of itself: readers build and builders
\* read, and a rebuild of an outdated preflight may start deep in a chain,
\* yet the calls that are waiting are all of different stages, so that every
\* command ends.
NoRecursion ==
    \A i, j \in DOMAIN stack :
      stack[i].call.stage = stack[j].call.stage => i = j

\* The dry-run intent in an execution lane spec that is ready belongs to the
\* review packet the operator approved.
ApprovalMatchesPlan ==
    saved["lane"].ok => saved["lane"].intent.hash = saved["lane"].hash
=============================================================================
