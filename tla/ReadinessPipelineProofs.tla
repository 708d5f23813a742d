----------------------- MODULE ReadinessPipelineProofs -----------------------
(***************************************************************************)
(* Proofs about ReadinessPipeline.  The properties relate a payload to the *)
(* approvals of the operator through a stack of calls, so the invariant    *)
(* says what every frame of the stack has asked for and what it has got.   *)
(***************************************************************************)
EXTENDS ReadinessPipeline, FiniteSetTheorems, TLAPS

\* The stages a builder asks for, in their order, whoever answers.
Needs(s) ==
    CASE s = "readiness" -> <<>>
      [] s = "packet"    -> <<"readiness">>
      [] s = "draft"     -> <<"packet">>
      [] s = "evidence"  -> <<"draft">>
      [] s = "plan"      -> <<"packet", "draft">>
      [] s = "pipeline"  -> Chain
      [] s = "orchestrator" -> Everything
      [] OTHER -> InputStages(s)

\* A builder only asks for stages of a smaller rank.
Rank(s) ==
    CASE s = "readiness" -> 0 [] s = "packet"       -> 1
      [] s = "draft"     -> 2 [] s = "evidence"     -> 3
      [] s = "plan"      -> 4 [] s = "lane"         -> 5
      [] s = "replay"    -> 6 [] s = "preflight"    -> 7
      [] s = "contract"  -> 8 [] s = "pipeline"     -> 9
      [] s = "adapter"   -> 10 [] s = "sandbox"     -> 11
      [] s = "validator" -> 12 [] s = "orchestrator" -> 13
      [] s = "absent"    -> 14

AnyPath  == Paths \cup {NoPath}
Requests == [op : {"build", "read", "either"}, stage : Saved,
             write : BOOLEAN, refresh : BOOLEAN, path : AnyPath]

\* Calls that ask for what a stage needs.
Asks(calls, s) ==
    /\ calls \in Seq(Requests)
    /\ Len(calls) = Len(Needs(s))
    /\ \A k \in 1..Len(calls) : calls[k].stage = Needs(s)[k]

\* A payload no property has anything against.
Backed(v) == v.stage \in Verdicts /\ v.ok => v.hash \in filed
Sound(v)  == v \in Payload /\ Backed(v)

Frames == [call : Calls, calls : Seq(Requests), got : Seq(Payload)]

FrameOK(f) ==
    /\ f \in Frames
    /\ Len(f.got) <= Len(f.calls)
    /\ \A k \in 1..Len(f.got) : /\ Sound(f.got[k])
                                /\ f.got[k].stage = f.calls[k].stage
    /\ f.call.op # "shell" => Asks(f.calls, f.call.stage)

IsShell(f)  == f.call.op = "shell" /\ f.call.stage = "absent"
IsBuild(f)  == /\ f.call.op \in {"build", "read"}
               /\ f.call.stage \in Saved
               /\ f.call.op = "read" =>
                    f.call.stage = "pipeline" /\ ~f.call.write

\* f waits for the answer of g.
WaitsFor(f, g) ==
    /\ Len(f.got) < Len(f.calls)
    /\ f.calls[Len(f.got) + 1].stage = g.call.stage

WorldOK ==
    /\ world \in World
    /\ files \subseteq Paths
    /\ bound \in [Paths -> Hashes]
    /\ \A p \in files : bound[p] \in filed

SavedOK ==
    /\ saved \in [Saved -> Payload]
    /\ \A s \in Saved : /\ Sound(saved[s])
                        /\ saved[s] = Absent \/ saved[s].stage = s
    /\ cache \in [BOOLEAN -> Payload]
    /\ \A r \in BOOLEAN : cache[r] = Absent \/ cache[r].stage = "packet"

\* A stack of calls: the shell at the bottom, every other frame answers the
\* call its caller waits for, and ranks go down.
StackFor(st) ==
    /\ st \in Seq(Frames)
    /\ Len(st) # 0
    /\ \A i \in 1..Len(st) : FrameOK(st[i])
    /\ IsShell(st[1])
    /\ \A i \in 2..Len(st) : IsBuild(st[i])
    /\ \A i \in 1..(Len(st) - 1) : WaitsFor(st[i], st[i + 1])
    /\ \A i, j \in 1..Len(st) :
         i < j => Rank(st[j].call.stage) < Rank(st[i].call.stage)

StackOK == StackFor(stack)

\* The inductive invariant.
PInv == WorldOK /\ SavedOK /\ StackOK
-----------------------------------------------------------------------------
(* What the operators of the model return.                                 *)

\* A sequence of stages becomes a sequence of calls for these stages.
LEMMA RebuildOrReadAsks ==
    ASSUME NEW ss \in Seq(Saved), NEW again \in BOOLEAN, NEW w \in BOOLEAN,
           NEW r \in BOOLEAN, NEW p \in AnyPath
    PROVE  LET calls == RebuildOrRead(again, ss, w, r, p)
           IN  /\ calls \in Seq(Requests)
               /\ Len(calls) = Len(ss)
               /\ \A k \in 1..Len(ss) : calls[k].stage = ss[k]
<1> DEFINE calls == RebuildOrRead(again, ss, w, r, p)
<1>1. DOMAIN ss = 1..Len(ss) /\ Len(ss) \in Nat
  OBVIOUS
<1>2. \A k \in 1..Len(ss) : calls[k] \in Requests /\ calls[k].stage = ss[k]
  BY <1>1 DEF RebuildOrRead, Source, Build, Read, Call, Requests, AnyPath
<1>3. calls \in [1..Len(ss) -> Requests]
  BY <1>1, <1>2 DEF RebuildOrRead
<1>4. calls \in Seq(Requests) /\ Len(calls) = Len(ss)
  BY <1>1, <1>3
<1> QED
  BY <1>2, <1>4

LEMMA RankValues ==
    /\ Rank("readiness") = 0
    /\ Rank("packet") = 1
    /\ Rank("draft") = 2
    /\ Rank("evidence") = 3
    /\ Rank("plan") = 4
    /\ Rank("lane") = 5
    /\ Rank("replay") = 6
    /\ Rank("preflight") = 7
    /\ Rank("contract") = 8
    /\ Rank("pipeline") = 9
    /\ Rank("adapter") = 10
    /\ Rank("sandbox") = 11
    /\ Rank("validator") = 12
    /\ Rank("orchestrator") = 13
    /\ Rank("absent") = 14
  BY DEF Rank

LEMMA RankIsInt == ASSUME NEW s \in Stages PROVE Rank(s) \in 0..14
  BY RankValues DEF Stages, Saved

\* What a stage needs are stages of smaller rank.
LEMMA NeedsAreLower ==
    ASSUME NEW s \in Saved
    PROVE  /\ Needs(s) \in Seq(Saved)
           /\ \A k \in 1..Len(Needs(s)) : Rank(Needs(s)[k]) < Rank(s)
<1>1. CASE s = "readiness"
  <2>1. Needs(s) = <<>>
    BY <1>1 DEF Needs
  <2>2. <<>> \in Seq(Saved) /\ Len(<<>>) = 0
    BY DEF Saved
  <2> QED
    BY <2>1, <2>2
<1>2. CASE s = "packet"
  <2>1. Needs(s) = <<"readiness">>
    BY <1>2 DEF Needs
  <2>2. <<"readiness">> \in Seq(Saved) /\ Len(<<"readiness">>) = 1
    BY DEF Saved
  <2>3. \A k \in 1..1 : Rank(<<"readiness">>[k]) < Rank("packet")
    <3>1. <<"readiness">>[1] = "readiness"
      OBVIOUS
    <3> QED
      BY <3>1, RankValues
  <2> QED
    BY <1>2, <2>1, <2>2, <2>3
<1>3. CASE s = "draft"
  <2>1. Needs(s) = <<"packet">>
    BY <1>3 DEF Needs
  <2>2. <<"packet">> \in Seq(Saved) /\ Len(<<"packet">>) = 1
    BY DEF Saved
  <2>3. \A k \in 1..1 : Rank(<<"packet">>[k]) < Rank("draft")
    <3>1. <<"packet">>[1] = "packet"
      OBVIOUS
    <3> QED
      BY <3>1, RankValues
  <2> QED
    BY <1>3, <2>1, <2>2, <2>3
<1>4. CASE s = "evidence"
  <2>1. Needs(s) = <<"draft">>
    BY <1>4 DEF Needs
  <2>2. <<"draft">> \in Seq(Saved) /\ Len(<<"draft">>) = 1
    BY DEF Saved
  <2>3. \A k \in 1..1 : Rank(<<"draft">>[k]) < Rank("evidence")
    <3>1. <<"draft">>[1] = "draft"
      OBVIOUS
    <3> QED
      BY <3>1, RankValues
  <2> QED
    BY <1>4, <2>1, <2>2, <2>3
<1>5. CASE s = "plan"
  <2>1. Needs(s) = <<"packet", "draft">>
    BY <1>5 DEF Needs
  <2>2. <<"packet", "draft">> \in Seq(Saved) /\ Len(<<"packet", "draft">>) = 2
    BY DEF Saved
  <2>3. \A k \in 1..2 : Rank(<<"packet", "draft">>[k]) < Rank("plan")
    <3>1. /\ <<"packet", "draft">>[1] = "packet"
          /\ <<"packet", "draft">>[2] = "draft"
      OBVIOUS
    <3> QED
      BY <3>1, RankValues
  <2> QED
    BY <1>5, <2>1, <2>2, <2>3
<1>6. CASE s = "lane"
  <2>1. Needs(s) = <<"evidence", "plan">>
    BY <1>6 DEF Needs, InputStages
  <2>2. /\ <<"evidence", "plan">> \in Seq(Saved)
        /\ Len(<<"evidence", "plan">>) = 2
    BY DEF Saved
  <2>3. \A k \in 1..2 : Rank(<<"evidence", "plan">>[k]) < Rank("lane")
    <3>1. /\ <<"evidence", "plan">>[1] = "evidence"
          /\ <<"evidence", "plan">>[2] = "plan"
      OBVIOUS
    <3> QED
      BY <3>1, RankValues
  <2> QED
    BY <1>6, <2>1, <2>2, <2>3
<1>7. CASE s = "replay"
  <2>1. Needs(s) = <<"lane", "plan">>
    BY <1>7 DEF Needs, InputStages
  <2>2. <<"lane", "plan">> \in Seq(Saved) /\ Len(<<"lane", "plan">>) = 2
    BY DEF Saved
  <2>3. \A k \in 1..2 : Rank(<<"lane", "plan">>[k]) < Rank("replay")
    <3>1. <<"lane", "plan">>[1] = "lane" /\ <<"lane", "plan">>[2] = "plan"
      OBVIOUS
    <3> QED
      BY <3>1, RankValues
  <2> QED
    BY <1>7, <2>1, <2>2, <2>3
<1>8. CASE s = "preflight"
  <2>1. Needs(s) = <<"replay", "lane">>
    BY <1>8 DEF Needs, InputStages
  <2>2. <<"replay", "lane">> \in Seq(Saved) /\ Len(<<"replay", "lane">>) = 2
    BY DEF Saved
  <2>3. \A k \in 1..2 : Rank(<<"replay", "lane">>[k]) < Rank("preflight")
    <3>1. /\ <<"replay", "lane">>[1] = "replay"
          /\ <<"replay", "lane">>[2] = "lane"
      OBVIOUS
    <3> QED
      BY <3>1, RankValues
  <2> QED
    BY <1>8, <2>1, <2>2, <2>3
<1>9. CASE s = "contract"
  <2>1. Needs(s) = <<"preflight">>
    BY <1>9 DEF Needs, InputStages
  <2>2. <<"preflight">> \in Seq(Saved) /\ Len(<<"preflight">>) = 1
    BY DEF Saved
  <2>3. \A k \in 1..1 : Rank(<<"preflight">>[k]) < Rank("contract")
    <3>1. <<"preflight">>[1] = "preflight"
      OBVIOUS
    <3> QED
      BY <3>1, RankValues
  <2> QED
    BY <1>9, <2>1, <2>2, <2>3
<1>10. CASE s = "pipeline"
  <2>1. Needs(s) = Chain
    BY <1>10 DEF Needs
  <2>2. Chain \in Seq(Saved) /\ Len(Chain) = 9
    BY DEF Chain, Saved
  <2>3. \A k \in 1..9 : Rank(Chain[k]) = k - 1
    <3>1. /\ Chain[1] = "readiness"
          /\ Chain[2] = "packet"
          /\ Chain[3] = "draft"
          /\ Chain[4] = "evidence"
          /\ Chain[5] = "plan"
          /\ Chain[6] = "lane"
          /\ Chain[7] = "replay"
          /\ Chain[8] = "preflight"
          /\ Chain[9] = "contract"
      BY DEF Chain
    <3> QED
      BY <3>1, RankValues
  <2> QED
    BY <1>10, <2>1, <2>2, <2>3, RankValues
<1>11. CASE s = "adapter"
  <2>1. Needs(s) = <<"pipeline", "contract">>
    BY <1>11 DEF Needs, InputStages
  <2>2. /\ <<"pipeline", "contract">> \in Seq(Saved)
        /\ Len(<<"pipeline", "contract">>) = 2
    BY DEF Saved
  <2>3. \A k \in 1..2 : Rank(<<"pipeline", "contract">>[k]) < Rank("adapter")
    <3>1. /\ <<"pipeline", "contract">>[1] = "pipeline"
          /\ <<"pipeline", "contract">>[2] = "contract"
      OBVIOUS
    <3> QED
      BY <3>1, RankValues
  <2> QED
    BY <1>11, <2>1, <2>2, <2>3
<1>12. CASE s = "sandbox"
  <2>1. Needs(s) = <<"contract", "adapter">>
    BY <1>12 DEF Needs, InputStages
  <2>2. /\ <<"contract", "adapter">> \in Seq(Saved)
        /\ Len(<<"contract", "adapter">>) = 2
    BY DEF Saved
  <2>3. \A k \in 1..2 : Rank(<<"contract", "adapter">>[k]) < Rank("sandbox")
    <3>1. /\ <<"contract", "adapter">>[1] = "contract"
          /\ <<"contract", "adapter">>[2] = "adapter"
      OBVIOUS
    <3> QED
      BY <3>1, RankValues
  <2> QED
    BY <1>12, <2>1, <2>2, <2>3
<1>13. CASE s = "validator"
  <2>1. Needs(s) = <<"contract", "sandbox">>
    BY <1>13 DEF Needs, InputStages
  <2>2. /\ <<"contract", "sandbox">> \in Seq(Saved)
        /\ Len(<<"contract", "sandbox">>) = 2
    BY DEF Saved
  <2>3. \A k \in 1..2 : Rank(<<"contract", "sandbox">>[k]) < Rank("validator")
    <3>1. /\ <<"contract", "sandbox">>[1] = "contract"
          /\ <<"contract", "sandbox">>[2] = "sandbox"
      OBVIOUS
    <3> QED
      BY <3>1, RankValues
  <2> QED
    BY <1>13, <2>1, <2>2, <2>3
<1>14. CASE s = "orchestrator"
  <2>1. Needs(s) = Everything
    BY <1>14 DEF Needs
  <2>2. Everything \in Seq(Saved) /\ Len(Everything) = 13
    BY DEF Everything, Saved
  <2>3. \A k \in 1..13 : Rank(Everything[k]) = k - 1
    <3>1. /\ Everything[1] = "readiness"
          /\ Everything[2] = "packet"
          /\ Everything[3] = "draft"
          /\ Everything[4] = "evidence"
          /\ Everything[5] = "plan"
          /\ Everything[6] = "lane"
          /\ Everything[7] = "replay"
          /\ Everything[8] = "preflight"
          /\ Everything[9] = "contract"
          /\ Everything[10] = "pipeline"
          /\ Everything[11] = "adapter"
          /\ Everything[12] = "sandbox"
          /\ Everything[13] = "validator"
      BY DEF Everything
    <3> QED
      BY <3>1, RankValues
  <2> QED
    BY <1>14, <2>1, <2>2, <2>3, RankValues
<1> QED
  BY <1>1, <1>2, <1>3, <1>4, <1>5, <1>6, <1>7, <1>8, <1>9, <1>10, <1>11,
     <1>12, <1>13, <1>14 DEF Saved

\* Every builder asks for what its stage needs.
LEMMA InputsAsk ==
    ASSUME NEW s \in Saved, NEW w \in BOOLEAN, NEW r \in BOOLEAN,
           NEW p \in AnyPath
    PROVE  Asks(Inputs(s, w, r, p), s)
<1>1. CASE s = "readiness"
  <2>1. Inputs(s, w, r, p) = <<>> /\ Needs(s) = <<>>
    BY <1>1 DEF Inputs, Needs
  <2> QED
    BY <2>1 DEF Asks
<1>2. CASE s \in {"packet", "draft", "pipeline"}
  <2>1. \E again \in BOOLEAN, q \in AnyPath :
          Inputs(s, w, r, p) = RebuildOrRead(again, Needs(s), w, r, q)
    <3>1. CASE s = "packet"
      BY <3>1 DEF Inputs, PacketInputs, Needs, AnyPath
    <3>2. CASE s = "draft"
      BY <3>2 DEF Inputs, DraftInputs, Needs, AnyPath
    <3>3. CASE s = "pipeline"
      BY <3>3 DEF Inputs, PipelineInputs, Needs
    <3> QED
      BY <1>2, <3>1, <3>2, <3>3
  <2>2. Needs(s) \in Seq(Saved)
    BY NeedsAreLower
  <2> QED
    BY <2>1, <2>2, RebuildOrReadAsks DEF Asks
<1>3. CASE s = "evidence"
  <2> DEFINE draft == Build("draft", w /\ r, r, NoPath)
  <2>1. Inputs(s, w, r, p) = <<draft>> /\ Needs(s) = <<"draft">>
    BY <1>3 DEF Inputs, EvidenceInputs, Needs
  <2>2. draft \in Requests /\ draft.stage = "draft"
    BY DEF Build, Call, Requests, Saved, AnyPath
  <2> HIDE DEF draft
  <2> QED
    BY <2>1, <2>2 DEF Asks
<1>4. CASE s = "plan"
  <2> DEFINE first == Source(r, "packet", w, r, NoPath)
             second == Build("draft", w, r, NoPath)
  <2>1. /\ Inputs(s, w, r, p) = <<first, second>>
        /\ Needs(s) = <<"packet", "draft">>
    BY <1>4 DEF Inputs, PlanInputs, Needs
  <2>2. first \in Requests /\ first.stage = "packet"
    BY DEF Source, Build, Read, Call, Requests, Saved, AnyPath
  <2>3. second \in Requests /\ second.stage = "draft"
    BY DEF Build, Call, Requests, Saved, AnyPath
  <2> HIDE DEF first, second
  <2> QED
    BY <2>1, <2>2, <2>3 DEF Asks
<1>5. CASE s = "orchestrator"
  <2> DEFINE calls == [i \in DOMAIN Everything |->
                         Call("either", Everything[i], w, r, p)]
  <2>1. Needs(s) = Everything /\ Inputs(s, w, r, p) = calls
    BY <1>5 DEF Inputs, OrchestratorInputs, Needs
  <2>2. Everything \in Seq(Saved)
    BY <2>1, NeedsAreLower
  <2>3. DOMAIN Everything = 1..Len(Everything) /\ Len(Everything) \in Nat
    BY <2>2
  <2>4. /\ calls \in [1..Len(Everything) -> Requests]
        /\ \A k \in 1..Len(Everything) : calls[k].stage = Everything[k]
    BY <2>2, <2>3 DEF Call, Requests, AnyPath
  <2>5. calls \in Seq(Requests) /\ Len(calls) = Len(Everything)
    BY <2>3, <2>4
  <2> QED
    BY <2>1, <2>4, <2>5 DEF Asks
<1>6. CASE s \in {"lane", "replay", "preflight", "contract", "adapter",
                  "sandbox", "validator"}
  <2>1. Inputs(s, w, r, p) = RebuildOrRead(r \/ p # NoPath, InputStages(s),
                                          w /\ r, r, p)
    BY <1>6 DEF Inputs
  <2>2. Needs(s) = InputStages(s)
    BY <1>6 DEF Needs
  <2>3. InputStages(s) \in Seq(Saved)
    BY <2>2, NeedsAreLower
  <2>4. (r \/ p # NoPath) \in BOOLEAN /\ (w /\ r) \in BOOLEAN
    OBVIOUS
  <2>5. PICK again \in BOOLEAN, save \in BOOLEAN :
          Inputs(s, w, r, p) = RebuildOrRead(again, Needs(s), save, r, p)
    BY <2>1, <2>2, <2>4
  <2> DEFINE calls == RebuildOrRead(again, Needs(s), save, r, p)
  <2>6. Needs(s) \in Seq(Saved)
    BY NeedsAreLower
  <2>7. /\ calls \in Seq(Requests)
        /\ Len(calls) = Len(Needs(s))
        /\ \A k \in 1..Len(Needs(s)) : calls[k].stage = Needs(s)[k]
    BY <2>6, RebuildOrReadAsks
  <2> HIDE DEF calls
  <2>8. Asks(calls, s)
    BY <2>7 DEF Asks
  <2> QED
    BY <2>5, <2>8 DEF calls
<1> QED
  BY <1>1, <1>2, <1>3, <1>4, <1>5, <1>6 DEF Saved

LEMMA BlankTyped ==
    /\ NoHash \in Hashes /\ NoIntent \in Intents
    /\ \A s \in Stages : Blank(s) \in Payload /\ Blank(s).stage = s
  BY DEF NoHash, Hashes, NoIntent, Intents, Blank, Payload, NoPath

\* What the inputs of the judging stages are.
LEMMA InputNames ==
    /\ Needs("packet") = <<"readiness">> /\ Needs("draft") = <<"packet">>
    /\ Needs("evidence") = <<"draft">> /\ Needs("plan") = <<"packet", "draft">>
    /\ Needs("lane") = <<"evidence", "plan">>
    /\ Needs("replay") = <<"lane", "plan">>
    /\ Needs("preflight") = <<"replay", "lane">>
    /\ Needs("contract") = <<"preflight">>
    /\ Needs("adapter") = <<"pipeline", "contract">>
    /\ Needs("sandbox") = <<"contract", "adapter">>
    /\ Needs("validator") = <<"contract", "sandbox">>
  BY DEF Needs, InputStages

\* A builder's payload is typed and named after its stage; when its inputs
\* are sound, so is it.
LEMMA ResultSound ==
    ASSUME WorldOK, NEW s \in Saved, NEW p \in AnyPath,
           NEW in \in Seq(Payload), Len(in) = Len(Needs(s)),
           \A k \in 1..Len(in) : Sound(in[k]) /\ in[k].stage = Needs(s)[k]
    PROVE  Sound(Result(s, p, in)) /\ Result(s, p, in).stage = s
<1> USE DEF AnyPath
<1>1. CASE s = "readiness"
  <2> DEFINE v == Readiness(world)
  <2>1. Result(s, p, in) = v
    BY <1>1 DEF Result
  <2>2. /\ Blank("readiness") \in Payload
        /\ Blank("readiness").stage = "readiness"
    BY BlankTyped DEF Stages, Saved
  <2>3. (world.contract # NoContract) \in BOOLEAN /\ HashOf(world) \in Hashes
    BY DEF WorldOK, World, HashOf, Hashes, NoHash
  <2>5. v \in Payload
    BY <2>2, <2>3 DEF Readiness, Payload
  <2>6. v.stage = "readiness"
    BY <2>2, <2>3 DEF Readiness, Payload
  <2>7. v.stage \notin Verdicts
    BY <2>6 DEF Verdicts
  <2> HIDE DEF v
  <2> QED
    BY <1>1, <2>1, <2>5, <2>6, <2>7 DEF Sound, Backed
<1>2. CASE s = "packet"
  <2> DEFINE v == Copied("packet", in)
  <2>1. Result(s, p, in) = v
    BY <1>2 DEF Result
  <2>2. Blank("packet") \in Payload /\ Blank("packet").stage = "packet"
    BY BlankTyped DEF Stages, Saved
  <2>3. /\ in[1] \in Payload /\ in[1].stage = "readiness"
        /\ Backed(in[1])
    BY <1>2, InputNames DEF Sound
  <2>5. v \in Payload
    BY <2>2, <2>3 DEF Copied, Payload
  <2>6. v.stage = "packet"
    BY <2>2, <2>3 DEF Copied, Payload
  <2>7. v.stage \notin Verdicts
    BY <2>6 DEF Verdicts
  <2> HIDE DEF v
  <2> QED
    BY <1>2, <2>1, <2>5, <2>6, <2>7 DEF Sound, Backed
<1>3. CASE s = "draft"
  <2> DEFINE v == Copied("draft", in)
  <2>1. Result(s, p, in) = v
    BY <1>3 DEF Result
  <2>2. Blank("draft") \in Payload /\ Blank("draft").stage = "draft"
    BY BlankTyped DEF Stages, Saved
  <2>3. /\ in[1] \in Payload /\ in[1].stage = "packet"
        /\ Backed(in[1])
    BY <1>3, InputNames DEF Sound
  <2>5. v \in Payload
    BY <2>2, <2>3 DEF Copied, Payload
  <2>6. v.stage = "draft"
    BY <2>2, <2>3 DEF Copied, Payload
  <2>7. v.stage \notin Verdicts
    BY <2>6 DEF Verdicts
  <2> HIDE DEF v
  <2> QED
    BY <1>3, <2>1, <2>5, <2>6, <2>7 DEF Sound, Backed
<1>4. CASE s = "evidence"
  <2> DEFINE v == Evidence(p, in)
  <2>1. Result(s, p, in) = v
    BY <1>4 DEF Result
  <2>2. Blank("evidence") \in Payload /\ Blank("evidence").stage = "evidence"
    BY BlankTyped DEF Stages, Saved
  <2>3. /\ in[1] \in Payload /\ in[1].stage = "draft"
        /\ Backed(in[1])
    BY <1>4, InputNames DEF Sound
  <2>4. \A q \in files : bound[q] \in filed
    BY DEF WorldOK
  <2>5. v \in Payload
    <3> DEFINE ok == p \in files /\ in[1].ok /\ bound[p] = in[1].hash
               rows == p \in files
               hash == in[1].hash
    <3>1. /\ ok \in BOOLEAN /\ rows \in BOOLEAN /\ hash \in Hashes
      BY <2>2, <2>3, <2>4 DEF Payload
    <3>2. v = [Blank("evidence") EXCEPT !.ok = ok, !.hash = hash,
                                     !.path = p, !.rows = rows]
      BY DEF Evidence
    <3> HIDE DEF v, ok, rows, hash
    <3> QED
      BY <2>2, <3>1, <3>2 DEF Payload
  <2>6. v.stage = "evidence"
    BY <2>2, <2>3, <2>4 DEF Evidence, Payload
  <2>7. v.ok => v.hash \in filed
    BY <2>2, <2>3, <2>4 DEF Evidence, Payload, Backed, Verdicts
  <2> HIDE DEF v
  <2> QED
    BY <1>4, <2>1, <2>5, <2>6, <2>7 DEF Sound, Backed
<1>5. CASE s = "plan"
  <2> DEFINE v == Plan(in)
  <2>1. Result(s, p, in) = v
    BY <1>5 DEF Result
  <2>2. Blank("plan") \in Payload /\ Blank("plan").stage = "plan"
    BY BlankTyped DEF Stages, Saved
  <2>3. /\ in[1] \in Payload /\ in[1].stage = "packet"
        /\ Backed(in[1])
        /\ in[2] \in Payload /\ in[2].stage = "draft"
        /\ Backed(in[2])
    BY <1>5, InputNames DEF Sound
  <2>4. /\ NoIntent \in Intents
        /\ \A i, j \in 1..2 : [example |-> in[i].hash.contract,
                                 hash |-> in[j].hash] \in Intents
    BY <2>3, BlankTyped DEF Payload, Hashes, Intents
  <2>5. v \in Payload
    <3> DEFINE ok == in[1].ok
               hash == in[2].hash
               intent == IF in[1].ok THEN [example |-> in[1].hash.contract,
                                         hash |-> in[2].hash]
                         ELSE NoIntent
    <3>1. /\ ok \in BOOLEAN /\ hash \in Hashes /\ intent \in Intents
      BY <2>2, <2>3, <2>4 DEF Payload
    <3>2. v = [Blank("plan") EXCEPT !.ok = ok, !.hash = hash,
                                 !.rows = ok, !.intent = intent]
      BY DEF Plan
    <3> HIDE DEF v, ok, hash, intent
    <3> QED
      BY <2>2, <3>1, <3>2 DEF Payload
  <2>6. v.stage = "plan"
    BY <2>2, <2>3, <2>4 DEF Plan, Payload
  <2>7. v.stage \notin Verdicts
    BY <2>6 DEF Verdicts
  <2> HIDE DEF v
  <2> QED
    BY <1>5, <2>1, <2>5, <2>6, <2>7 DEF Sound, Backed
<1>6. CASE s = "lane"
  <2> DEFINE v == LaneSpec(in)
  <2>1. Result(s, p, in) = v
    BY <1>6 DEF Result
  <2>2. Blank("lane") \in Payload /\ Blank("lane").stage = "lane"
    BY BlankTyped DEF Stages, Saved
  <2>3. /\ in[1] \in Payload /\ in[1].stage = "evidence"
        /\ Backed(in[1])
        /\ in[2] \in Payload /\ in[2].stage = "plan"
        /\ Backed(in[2])
    BY <1>6, InputNames DEF Sound
  <2>4. NoIntent \in Intents
    BY BlankTyped
  <2>5. v \in Payload
    <3> DEFINE rows == in[1].rows /\ in[2].rows
               ok == in[1].ok /\ rows
               hash == in[1].hash
               intent == IF rows THEN in[2].intent ELSE NoIntent
    <3>1. /\ ok \in BOOLEAN /\ rows \in BOOLEAN /\ hash \in Hashes
          /\ intent \in Intents
      BY <2>3, <2>4 DEF Payload
    <3>2. v = [Blank("lane") EXCEPT !.ok = ok, !.hash = hash,
                 !.rows = rows, !.intent = intent]
      BY DEF LaneSpec
    <3> HIDE DEF v, ok, rows, hash, intent
    <3> QED
      BY <2>2, <3>1, <3>2 DEF Payload
  <2>6. v.stage = "lane"
    BY <2>2, <2>3, <2>4 DEF LaneSpec, Payload
  <2>7. v.ok => v.hash \in filed
    BY <2>2, <2>3, <2>4 DEF LaneSpec, Payload, Backed, Verdicts
  <2> HIDE DEF v
  <2> QED
    BY <1>6, <2>1, <2>5, <2>6, <2>7 DEF Sound, Backed
<1>7. CASE s = "replay"
  <2> DEFINE v == Replay(in)
  <2>1. Result(s, p, in) = v
    BY <1>7 DEF Result
  <2>2. Blank("replay") \in Payload /\ Blank("replay").stage = "replay"
    BY BlankTyped DEF Stages, Saved
  <2>3. /\ in[1] \in Payload /\ in[1].stage = "lane"
        /\ Backed(in[1])
        /\ in[2] \in Payload /\ in[2].stage = "plan"
        /\ Backed(in[2])
    BY <1>7, InputNames DEF Sound
  <2>5. v \in Payload
    <3> DEFINE ok == in[1].ok /\ in[2].rows /\ in[1].intent = in[2].intent
               hash == in[1].hash
               intent == in[2].intent
               rows == in[2].rows
    <3>1. /\ ok \in BOOLEAN /\ rows \in BOOLEAN /\ hash \in Hashes
          /\ intent \in Intents
      BY <2>3 DEF Payload
    <3>2. v = [Blank("replay") EXCEPT !.ok = ok, !.hash = hash,
                 !.intent = intent, !.rows = rows]
      BY DEF Replay
    <3> HIDE DEF v, ok, rows, hash, intent
    <3> QED
      BY <2>2, <3>1, <3>2 DEF Payload
  <2>6. v.stage = "replay"
    BY <2>2, <2>3 DEF Replay, Payload
  <2>7. v.ok => v.hash \in filed
    BY <2>2, <2>3 DEF Replay, Payload, Backed, Verdicts
  <2> HIDE DEF v
  <2> QED
    BY <1>7, <2>1, <2>5, <2>6, <2>7 DEF Sound, Backed
<1>8. CASE s = "preflight"
  <2> DEFINE v == Preflight(p, in)
  <2>1. Result(s, p, in) = v
    BY <1>8 DEF Result
  <2>2. /\ Blank("preflight") \in Payload
        /\ Blank("preflight").stage = "preflight"
    BY BlankTyped DEF Stages, Saved
  <2>3. /\ in[1] \in Payload /\ in[1].stage = "replay"
        /\ Backed(in[1])
        /\ in[2] \in Payload /\ in[2].stage = "lane"
        /\ Backed(in[2])
    BY <1>8, InputNames DEF Sound
  <2>4. world.probe \in BOOLEAN /\ world.mode \in BOOLEAN
    BY DEF WorldOK, World
  <2>5. v \in Payload
    <3> DEFINE plane == /\ in[1].ok /\ in[2].ok
                        /\ in[1].intent = in[2].intent
                        /\ world.probe
               ok == plane /\ world.mode
               modeOnly == plane /\ ~world.mode
               hash == in[1].hash
               intent == in[1].intent
               rows == in[1].rows
    <3>1. /\ plane \in BOOLEAN /\ ok \in BOOLEAN /\ modeOnly \in BOOLEAN
          /\ hash \in Hashes /\ intent \in Intents /\ rows \in BOOLEAN
      BY <2>2, <2>3, <2>4 DEF Payload
    <3>2. v = [Blank("preflight") EXCEPT !.ok = ok, !.plane = plane,
                 !.modeOnly = modeOnly, !.hash = hash, !.intent = intent,
                 !.path = p, !.rows = rows]
      BY DEF Preflight
    <3> HIDE DEF v, plane, ok, modeOnly, hash, intent, rows
    <3> QED
      BY <2>2, <3>1, <3>2 DEF Payload
  <2>6. v.stage = "preflight"
    BY <2>2, <2>3, <2>4 DEF Preflight, Payload
  <2>7. v.ok => v.hash \in filed
    BY <2>2, <2>3, <2>4 DEF Preflight, Payload, Backed, Verdicts
  <2> HIDE DEF v
  <2> QED
    BY <1>8, <2>1, <2>5, <2>6, <2>7 DEF Sound, Backed
<1>9. CASE s = "contract"
  <2> DEFINE v == OrderContract(in)
  <2>1. Result(s, p, in) = v
    BY <1>9 DEF Result
  <2>2. Blank("contract") \in Payload /\ Blank("contract").stage = "contract"
    BY BlankTyped DEF Stages, Saved
  <2>3. /\ in[1] \in Payload /\ in[1].stage = "preflight"
        /\ Backed(in[1])
    BY <1>9, InputNames DEF Sound
  <2>5. v \in Payload
    BY <2>2, <2>3 DEF OrderContract, Payload, Stages, Saved
  <2>6. v.stage = "contract"
    BY <2>2, <2>3 DEF OrderContract, Payload
  <2>7. v.ok => v.hash \in filed
    BY <2>2, <2>3 DEF OrderContract, Payload, Backed, Verdicts
  <2> HIDE DEF v
  <2> QED
    BY <1>9, <2>1, <2>5, <2>6, <2>7 DEF Sound, Backed
<1>10. CASE s = "pipeline"
  <2> DEFINE v == Pipeline(in)
  <2>1. Result(s, p, in) = v
    BY <1>10 DEF Result
  <2>2. Blank("pipeline") \in Payload /\ Blank("pipeline").stage = "pipeline"
    BY BlankTyped DEF Stages, Saved
  <2>3. \A k \in 1..9 : in[k] \in Payload
    <3>1. Needs(s) = Chain /\ Len(Chain) = 9
      BY <1>10 DEF Needs, Chain
    <3> QED
      BY <3>1 DEF Sound
  <2>5. v \in Payload
    <3> DEFINE ok == in[9].ok
               plane == /\ \A i \in {1, 2, 4, 5, 6, 7} : in[i].ok
                        /\ in[8].plane /\ in[9].plane
               modeOnly == in[8].modeOnly \/ in[9].modeOnly
               hash == in[4].hash
    <3>1. /\ ok \in BOOLEAN /\ plane \in BOOLEAN /\ modeOnly \in BOOLEAN
          /\ hash \in Hashes
      BY <2>2, <2>3 DEF Payload
    <3>2. v = [Blank("pipeline") EXCEPT !.ok = ok, !.plane = plane,
                                     !.modeOnly = modeOnly, !.hash = hash]
      BY DEF Pipeline
    <3> HIDE DEF v, ok, plane, modeOnly, hash
    <3> QED
      BY <2>2, <3>1, <3>2 DEF Payload
  <2>6. v.stage = "pipeline"
    BY <2>2, <2>3 DEF Pipeline, Payload
  <2>7. v.stage \notin Verdicts
    BY <2>6 DEF Verdicts
  <2> HIDE DEF v
  <2> QED
    BY <1>10, <2>1, <2>5, <2>6, <2>7 DEF Sound, Backed
<1>11. CASE s = "adapter"
  <2> DEFINE v == Adapter(in)
  <2>1. Result(s, p, in) = v
    BY <1>11 DEF Result
  <2>2. Blank("adapter") \in Payload /\ Blank("adapter").stage = "adapter"
    BY BlankTyped DEF Stages, Saved
  <2>3. /\ in[1] \in Payload /\ in[1].stage = "pipeline"
        /\ Backed(in[1])
        /\ in[2] \in Payload /\ in[2].stage = "contract"
        /\ Backed(in[2])
    BY <1>11, InputNames DEF Sound
  <2>5. v \in Payload
    <3> DEFINE plane == (in[1].ok \/ in[1].plane) /\ in[2].plane
               modeOnly == in[1].modeOnly \/ in[2].modeOnly
               ok == in[1].ok /\ in[2].ok /\ ~(plane /\ modeOnly)
               hash == in[2].hash
    <3>1. /\ ok \in BOOLEAN /\ plane \in BOOLEAN /\ modeOnly \in BOOLEAN
          /\ hash \in Hashes
      BY <2>3 DEF Payload
    <3>2. v = [Blank("adapter") EXCEPT !.ok = ok, !.plane = plane,
                 !.modeOnly = modeOnly, !.hash = hash]
      BY DEF Adapter
    <3> HIDE DEF v, plane, modeOnly, ok, hash
    <3> QED
      BY <2>2, <3>1, <3>2 DEF Payload
  <2>6. v.stage = "adapter"
    BY <2>2, <2>3 DEF Adapter, Payload
  <2>7. v.ok => v.hash \in filed
    BY <2>2, <2>3 DEF Adapter, Payload, Backed, Verdicts
  <2> HIDE DEF v
  <2> QED
    BY <1>11, <2>1, <2>5, <2>6, <2>7 DEF Sound, Backed
<1>12. CASE s = "sandbox"
  <2> DEFINE v == Sandbox(in)
  <2>1. Result(s, p, in) = v
    BY <1>12 DEF Result
  <2>2. Blank("sandbox") \in Payload /\ Blank("sandbox").stage = "sandbox"
    BY BlankTyped DEF Stages, Saved
  <2>3. /\ in[1] \in Payload /\ in[1].stage = "contract"
        /\ Backed(in[1])
        /\ in[2] \in Payload /\ in[2].stage = "adapter"
        /\ Backed(in[2])
    BY <1>12, InputNames DEF Sound
  <2>5. v \in Payload
    <3> DEFINE plane == in[1].plane /\ (in[2].ok \/ in[2].plane) /\ in[1].rows
               modeOnly == in[1].modeOnly \/ in[2].modeOnly
               ok == /\ in[1].ok /\ in[2].ok /\ in[1].rows
                     /\ ~(plane /\ modeOnly)
               hash == in[1].hash
               rows == in[1].rows
    <3>1. /\ ok \in BOOLEAN /\ plane \in BOOLEAN /\ modeOnly \in BOOLEAN
          /\ hash \in Hashes /\ rows \in BOOLEAN
      BY <2>2, <2>3 DEF Payload
    <3>2. v = [Blank("sandbox") EXCEPT !.ok = ok, !.plane = plane,
                                    !.modeOnly = modeOnly, !.hash = hash,
                                    !.rows = rows]
      BY DEF Sandbox
    <3> HIDE DEF v, plane, modeOnly, ok, hash, rows
    <3> QED
      BY <2>2, <3>1, <3>2 DEF Payload
  <2>6. v.stage = "sandbox"
    BY <2>2, <2>3 DEF Sandbox, Payload
  <2>7. v.ok => v.hash \in filed
    BY <2>2, <2>3 DEF Sandbox, Payload, Backed, Verdicts
  <2> HIDE DEF v
  <2> QED
    BY <1>12, <2>1, <2>5, <2>6, <2>7 DEF Sound, Backed
<1>13. CASE s = "validator"
  <2> DEFINE v == Validator(in)
  <2>1. Result(s, p, in) = v
    BY <1>13 DEF Result
  <2>2. /\ Blank("validator") \in Payload
        /\ Blank("validator").stage = "validator"
    BY BlankTyped DEF Stages, Saved
  <2>3. /\ in[1] \in Payload /\ in[1].stage = "contract"
        /\ Backed(in[1])
        /\ in[2] \in Payload /\ in[2].stage = "sandbox"
        /\ Backed(in[2])
    BY <1>13, InputNames DEF Sound
  <2>5. v \in Payload
    <3> DEFINE ok == in[1].ok /\ in[2].rows
               plane == in[1].plane /\ in[2].rows
               modeOnly == in[1].modeOnly
               hash == in[1].hash
               rows == in[2].rows
    <3>1. /\ ok \in BOOLEAN /\ plane \in BOOLEAN /\ modeOnly \in BOOLEAN
          /\ hash \in Hashes /\ rows \in BOOLEAN
      BY <2>3 DEF Payload
    <3>2. v = [Blank("validator") EXCEPT !.ok = ok, !.plane = plane,
                 !.modeOnly = modeOnly, !.hash = hash, !.rows = rows]
      BY DEF Validator
    <3> HIDE DEF v, ok, plane, modeOnly, hash, rows
    <3> QED
      BY <2>2, <3>1, <3>2 DEF Payload
  <2>6. v.stage = "validator"
    BY <2>2, <2>3 DEF Validator, Payload
  <2>7. v.ok => v.hash \in filed
    BY <2>2, <2>3 DEF Validator, Payload, Backed, Verdicts
  <2> HIDE DEF v
  <2> QED
    BY <1>13, <2>1, <2>5, <2>6, <2>7 DEF Sound, Backed
<1>14. CASE s = "orchestrator"
  <2> DEFINE v == Orchestrator(in)
  <2>1. Result(s, p, in) = v
    BY <1>14 DEF Result
  <2>2. /\ Blank("orchestrator") \in Payload
        /\ Blank("orchestrator").stage = "orchestrator"
    BY BlankTyped DEF Stages, Saved
  <2>3. (\A i \in 10..13 : in[i].ok) \in BOOLEAN
    OBVIOUS
  <2>5. v \in Payload
    BY <2>2, <2>3 DEF Orchestrator, Payload
  <2>6. v.stage = "orchestrator"
    BY <2>2, <2>3 DEF Orchestrator, Payload
  <2>7. v.stage \notin Verdicts
    BY <2>6 DEF Verdicts
  <2> HIDE DEF v
  <2> QED
    BY <1>14, <2>1, <2>5, <2>6, <2>7 DEF Sound, Backed
<1> QED
  BY <1>1, <1>2, <1>3, <1>4, <1>5, <1>6, <1>7, <1>8, <1>9, <1>10, <1>11,
     <1>12, <1>13, <1>14 DEF Saved
-----------------------------------------------------------------------------
(* What the steps of a command do to the stack.                            *)

\* The innermost frame may change, as long as it answers the same call.
LEMMA TopReplaced ==
    ASSUME NEW st, StackFor(st), NEW g, FrameOK(g),
           g.call = st[Len(st)].call
    PROVE  StackFor([st EXCEPT ![Len(st)] = g])
<1> DEFINE n == Len(st)
           new == [st EXCEPT ![n] = g]
<1>1. st \in Seq(Frames) /\ n \in Nat \ {0}
  BY DEF StackFor
<1>2. g \in Frames
  BY DEF FrameOK
<1>3. /\ new \in Seq(Frames) /\ Len(new) = n /\ new[n] = g
      /\ \A i \in 1..(n - 1) : new[i] = st[i]
  BY <1>1, <1>2
<1>4. \A i \in 1..n : new[i].call = st[i].call
  <2>1. \A i \in 1..n : i = n \/ i \in 1..(n - 1)
    BY <1>1
  <2>2. new[n].call = st[n].call
    BY <1>3
  <2>3. \A i \in 1..(n - 1) : new[i].call = st[i].call
    BY <1>3
  <2> HIDE DEF new
  <2> QED
    BY <2>1, <2>2, <2>3
<1> HIDE DEF new
<1>5. \A i \in 1..n : FrameOK(new[i])
  BY <1>1, <1>3 DEF StackFor
<1>6. IsShell(new[1]) /\ \A i \in 2..n : IsBuild(new[i])
  BY <1>1, <1>4 DEF StackFor, IsShell, IsBuild
<1>7. \A i \in 1..(n - 1) : WaitsFor(new[i], new[i + 1])
  <2> TAKE i \in 1..(n - 1)
  <2>1. new[i] = st[i] /\ new[i + 1].call = st[i + 1].call
    BY <1>1, <1>3, <1>4
  <2>2. WaitsFor(st[i], st[i + 1])
    BY DEF StackFor
  <2> QED
    BY <2>1, <2>2 DEF WaitsFor
<1>8. \A i, j \in 1..n :
        i < j => Rank(new[j].call.stage) < Rank(new[i].call.stage)
  BY <1>1, <1>4 DEF StackFor
<1>9. StackFor(new)
  BY <1>1, <1>3, <1>5, <1>6, <1>7, <1>8 DEF StackFor
<1> QED
  BY <1>9 DEF new

\* The innermost call gets a sound answer of the stage it asked for.
LEMMA TopAnswered ==
    ASSUME NEW st, StackFor(st), NEW v, Sound(v),
           Len(st[Len(st)].got) < Len(st[Len(st)].calls),
           v.stage = st[Len(st)].calls[Len(st[Len(st)].got) + 1].stage
    PROVE  StackFor([st EXCEPT ![Len(st)].got = Append(@, v)])
<1> DEFINE f == st[Len(st)]
           g == [f EXCEPT !.got = Append(@, v)]
<1>1. st \in Seq(Frames) /\ Len(st) \in 1..Len(st) /\ FrameOK(f)
  BY DEF StackFor
<1>2. f \in Frames /\ f.got \in Seq(Payload) /\ f.calls \in Seq(Requests)
  BY <1>1 DEF FrameOK, Frames
<1>3. /\ v \in Payload
      /\ Len(f.got) < Len(f.calls)
      /\ v.stage = f.calls[Len(f.got) + 1].stage
  BY DEF Sound
<1> HIDE DEF f
<1>4. /\ g \in Frames
      /\ g.call = f.call /\ g.calls = f.calls /\ g.got = Append(f.got, v)
  <2>1. Append(f.got, v) \in Seq(Payload)
    BY <1>2, <1>3
  <2> DEFINE got == Append(f.got, v)
  <2>2. g = [f EXCEPT !.got = got]
    BY <1>2 DEF Frames
  <2> HIDE DEF got, g
  <2>3. got \in Seq(Payload)
    BY <2>1 DEF got
  <2>4. /\ g \in Frames
        /\ g.call = f.call /\ g.calls = f.calls /\ g.got = got
    BY <1>2, <2>2, <2>3 DEF Frames
  <2> QED
    BY <2>4 DEF got
<1>5. /\ Len(g.got) = Len(f.got) + 1
      /\ g.got[Len(f.got) + 1] = v
      /\ \A k \in 1..Len(f.got) : g.got[k] = f.got[k]
  BY <1>2, <1>3, <1>4
<1>6. [st EXCEPT ![Len(st)].got = Append(@, v)] = [st EXCEPT ![Len(st)] = g]
  BY <1>1 DEF f
<1> HIDE DEF g
<1>7. Len(g.got) <= Len(g.calls)
  BY <1>2, <1>3, <1>4, <1>5
<1>8. \A k \in 1..Len(g.got) : /\ Sound(g.got[k])
                               /\ g.got[k].stage = g.calls[k].stage
  BY <1>1, <1>2, <1>3, <1>4, <1>5 DEF FrameOK
<1>9. FrameOK(g)
  BY <1>1, <1>4, <1>7, <1>8 DEF FrameOK
<1> QED
  BY <1>4, <1>6, <1>9, TopReplaced DEF f

\* The innermost call becomes another call for the same stage.
LEMMA TopBecomes ==
    ASSUME NEW st, StackFor(st), NEW c \in Requests,
           Len(st[Len(st)].got) < Len(st[Len(st)].calls),
           c.stage = st[Len(st)].calls[Len(st[Len(st)].got) + 1].stage
    PROVE  StackFor([st EXCEPT
                       ![Len(st)].calls[Len(st[Len(st)].got) + 1] = c])
<1> DEFINE f == st[Len(st)]
           m == Len(f.got) + 1
           calls == [f.calls EXCEPT ![m] = c]
           g == [f EXCEPT !.calls = calls]
<1>1. st \in Seq(Frames) /\ Len(st) \in 1..Len(st) /\ FrameOK(f)
  BY DEF StackFor
<1>2. f \in Frames /\ f.got \in Seq(Payload) /\ f.calls \in Seq(Requests)
  BY <1>1 DEF FrameOK, Frames
<1>3. m \in 1..Len(f.calls)
  BY <1>2
<1>4. /\ calls \in Seq(Requests) /\ Len(calls) = Len(f.calls)
      /\ \A k \in 1..Len(calls) : calls[k].stage = f.calls[k].stage
  BY <1>2, <1>3
<1>5. [st EXCEPT ![Len(st)].calls[m] = c] = [st EXCEPT ![Len(st)] = g]
  BY <1>1
<1> HIDE DEF calls
<1>6. /\ g \in Frames
      /\ g.call = f.call /\ g.calls = calls /\ g.got = f.got
  BY <1>2, <1>4 DEF Frames
<1> HIDE DEF g
<1>7. \A k \in 1..Len(g.got) : /\ Sound(g.got[k])
                               /\ g.got[k].stage = g.calls[k].stage
  BY <1>1, <1>2, <1>3, <1>4, <1>6 DEF FrameOK
<1>8. g.call.op # "shell" => Asks(g.calls, g.call.stage)
  BY <1>1, <1>4, <1>6 DEF FrameOK, Asks
<1>9. FrameOK(g)
  BY <1>2, <1>3, <1>4, <1>6, <1>7, <1>8 DEF FrameOK
<1> QED
  BY <1>5, <1>6, <1>9, TopReplaced DEF calls

\* A frame is pushed for the call the innermost one waits for.
LEMMA FramePushed ==
    ASSUME NEW st, StackFor(st), NEW g, FrameOK(g), IsBuild(g),
           WaitsFor(st[Len(st)], g)
    PROVE  StackFor(Append(st, g))
<1> DEFINE n == Len(st)
           new == Append(st, g)
           top == st[n]
<1>1. st \in Seq(Frames) /\ n \in Nat \ {0} /\ FrameOK(top)
  BY DEF StackFor
<1>2. g \in Frames
  BY DEF FrameOK
<1>3. /\ new \in Seq(Frames) /\ Len(new) = n + 1 /\ new[n + 1] = g
      /\ \A i \in 1..n : new[i] = st[i]
  BY <1>1, <1>2
<1> HIDE DEF new
<1>4. Rank(g.call.stage) < Rank(top.call.stage)
  <2>1. /\ Len(top.got) + 1 \in 1..Len(top.calls)
        /\ g.call.stage = top.calls[Len(top.got) + 1].stage
    BY <1>1 DEF WaitsFor, FrameOK, Frames
  <2>2. CASE IsShell(top)
    <3>1. g.call.stage \in Saved
      BY DEF IsBuild
    <3>2. Rank(g.call.stage) < 14
      BY <3>1, RankValues DEF Saved
    <3> QED
      BY <2>2, <3>2, RankValues DEF IsShell
  <2>3. CASE IsBuild(top)
    <3>1. top.call.op # "shell" /\ top.call.stage \in Saved
      BY <2>3 DEF IsBuild
    <3>2. Asks(top.calls, top.call.stage)
      BY <1>1, <3>1 DEF FrameOK
    <3> QED
      BY <2>1, <3>1, <3>2, NeedsAreLower DEF Asks
  <2>4. n \in Nat /\ n # 0
    BY <1>1
  <2>5. IsShell(st[1]) /\ \A i \in 2..n : IsBuild(st[i])
    BY DEF StackFor
  <2> HIDE DEF n
  <2>6. IsShell(top) \/ IsBuild(top)
    BY <2>4, <2>5
  <2> QED
    BY <2>2, <2>3, <2>6
<1>5. \A i \in 1..n : Rank(st[i].call.stage) \in Nat
  <2> TAKE i \in 1..n
  <2>1. st[i] \in Frames
    BY <1>1
  <2>2. st[i].call.stage \in Stages
    BY <2>1 DEF Frames, Calls
  <2> QED
    BY <2>2, RankIsInt
<1>6. \A i, j \in 1..(n + 1) :
        i < j => Rank(new[j].call.stage) < Rank(new[i].call.stage)
  <2> SUFFICES ASSUME NEW i \in 1..(n + 1), NEW j \in 1..(n + 1), i < j
               PROVE  Rank(new[j].call.stage) < Rank(new[i].call.stage)
    OBVIOUS
  <2>1. CASE j # n + 1
    BY <1>1, <1>3, <2>1 DEF StackFor
  <2>2. CASE j = n + 1
    <3>1. i \in 1..n /\ new[i] = st[i] /\ new[j] = g
      BY <1>1, <1>3, <2>2
    <3>2. i # n => Rank(top.call.stage) < Rank(st[i].call.stage)
      BY <1>1, <3>1 DEF StackFor
    <3>3. Rank(g.call.stage) \in Nat
      BY RankIsInt DEF IsBuild, Stages
    <3> QED
      BY <1>1, <1>4, <1>5, <3>1, <3>2, <3>3
  <2> QED
    BY <2>1, <2>2
<1>7. \A i \in 1..(n + 1) : FrameOK(new[i])
  BY <1>1, <1>3 DEF StackFor
<1>8. IsShell(new[1]) /\ \A i \in 2..(n + 1) : IsBuild(new[i])
  BY <1>1, <1>3 DEF StackFor
<1>9. \A i \in 1..n : WaitsFor(new[i], new[i + 1])
  BY <1>1, <1>3 DEF StackFor
<1>10. StackFor(new)
  BY <1>1, <1>3, <1>6, <1>7, <1>8, <1>9 DEF StackFor
<1> QED
  BY <1>10 DEF new

\* The innermost frame is popped.
LEMMA FramePopped ==
    ASSUME NEW st, StackFor(st), Len(st) > 1
    PROVE  LET outer == SubSeq(st, 1, Len(st) - 1)
           IN  /\ StackFor(outer) /\ Len(outer) = Len(st) - 1
               /\ WaitsFor(outer[Len(outer)], st[Len(st)])
<1> DEFINE n == Len(st)
           outer == SubSeq(st, 1, n - 1)
<1>1. st \in Seq(Frames) /\ n \in Nat /\ n - 1 \in Nat
  BY DEF StackFor
<1>2. /\ outer \in Seq(Frames) /\ Len(outer) = n - 1
      /\ \A i \in 1..(n - 1) : outer[i] = st[i]
  BY <1>1
<1> HIDE DEF outer
<1>3. StackFor(outer)
  BY <1>1, <1>2 DEF StackFor
<1>4. WaitsFor(outer[n - 1], st[n])
  <2>1. outer[n - 1] = st[n - 1] /\ n - 1 \in 1..(n - 1) /\ (n - 1) + 1 = n
    BY <1>1, <1>2
  <2>2. WaitsFor(st[n - 1], st[(n - 1) + 1])
    BY <1>1, <2>1 DEF StackFor
  <2> QED
    BY <2>1, <2>2
<1> QED
  BY <1>2, <1>3, <1>4 DEF outer
-----------------------------------------------------------------------------
(* The steps.                                                              *)

\* Approvals are never taken back from the history.
LEMMA StackMoves ==
    ASSUME StackFor(stack'), filed \subseteq filed'
    PROVE  StackOK'
<1>1. \A v : Sound(v) => Sound(v)'
  BY DEF Sound, Backed
<1>2. \A f : FrameOK(f) => FrameOK(f)'
  BY <1>1 DEF FrameOK
<1> QED
  BY <1>2 DEF StackOK, StackFor

LEMMA SavedStays ==
    ASSUME SavedOK, UNCHANGED <<saved, cache>>, filed \subseteq filed'
    PROVE  SavedOK'
<1>1. \A v : Sound(v) => Sound(v)'
  BY DEF Sound, Backed
<1> QED
  BY <1>1 DEF SavedOK

LEMMA AbsentSound ==
    \A s \in Stages : Sound(Blank(s))
<1>1. \A s \in Stages : Blank(s).ok = FALSE /\ Blank(s).plane = FALSE
  BY DEF Blank
<1> QED
  BY <1>1, BlankTyped DEF Sound, Backed

\* A stack with nothing but a command that has got no answer yet.
LEMMA ShellFine ==
    ASSUME NEW calls \in Seq(Requests)
    PROVE  StackFor(<<Shell(calls)>>)
<1> DEFINE f == Shell(calls)
           st == <<f>>
<1>1. /\ f.call = Call("shell", "absent", FALSE, FALSE, NoPath)
      /\ f.calls = calls /\ f.got = <<>>
      /\ f = [call |-> f.call, calls |-> f.calls, got |-> f.got]
  BY DEF Shell, Frame
<1>2. f.call \in Calls /\ f.call.op = "shell" /\ f.call.stage = "absent"
  BY <1>1 DEF Call, Calls, CallOps, Stages, NoPath
<1>3. <<>> \in Seq(Payload) /\ Len(<<>>) = 0
  OBVIOUS
<1> HIDE DEF f
<1>4. f \in Frames
  BY <1>1, <1>2, <1>3 DEF Frames
<1>5. FrameOK(f)
  <2>1. Len(f.got) = 0 /\ Len(f.calls) \in Nat
    BY <1>1, <1>3
  <2> QED
    BY <1>2, <1>4, <2>1 DEF FrameOK
<1>6. st \in Seq(Frames) /\ Len(st) = 1 /\ st[1] = f
  BY <1>4
<1> HIDE DEF st
<1>7. StackFor(st)
  BY <1>2, <1>5, <1>6 DEF StackFor, IsShell
<1> QED
  BY <1>7 DEF st, f

LEMMA InitEstablishes == ASSUME PInit PROVE PInv
<1>1. world \in World
  BY DEF PInit, World
<1>2. WorldOK
  BY <1>1, BlankTyped DEF PInit, WorldOK
<1>3. SavedOK
  <2> DEFINE first  == Readiness(world)
             made(s) == Copied(s, <<first>>)
  <2>1. Sound(first) /\ first.stage = "readiness"
    <3>1. Needs("readiness") = <<>>
      BY DEF Needs
    <3>2. Result("readiness", NoPath, <<>>) = first
      BY DEF Result
    <3>3. "readiness" \in Saved /\ NoPath \in AnyPath
      BY DEF Saved, AnyPath
    <3>4. <<>> \in Seq(Payload) /\ Len(<<>>) = 0
      OBVIOUS
    <3>5. \A k \in 1..Len(<<>>) : FALSE
      BY <3>4
    <3>6. /\ Sound(Result("readiness", NoPath, <<>>))
          /\ Result("readiness", NoPath, <<>>).stage = "readiness"
      BY <1>2, <3>1, <3>3, <3>4, <3>5, ResultSound
    <3> QED
      BY <3>2, <3>6
  <2>2. \A s \in {"packet", "draft"} : Sound(made(s)) /\ made(s).stage = s
    <3> TAKE s \in {"packet", "draft"}
    <3>1. Blank(s) \in Payload /\ Blank(s).stage = s
      BY BlankTyped DEF Stages, Saved
    <3>2. first \in Payload
      BY <2>1 DEF Sound
    <3>3. made(s) \in Payload /\ made(s).stage = s
      <4> HIDE DEF first
      <4>1. <<first>>[1].ok \in BOOLEAN /\ <<first>>[1].hash \in Hashes
        BY <3>2 DEF Payload
      <4> QED
        BY <3>1, <4>1 DEF Copied, Payload
    <3>4. made(s).stage \notin Verdicts
      BY <3>3 DEF Verdicts
    <3> HIDE DEF made
    <3> QED
      BY <3>3, <3>4 DEF Sound, Backed
  <2>3. Sound(Absent)
    BY AbsentSound DEF Absent, Stages
  <2> HIDE DEF first, made
  <2>4. \A s \in Saved :
          saved[s] = CASE s = "readiness" -> first
                       [] s \in {"packet", "draft"} -> made(s)
                       [] OTHER           -> Absent
    BY DEF PInit, first, made
  <2>5. \A s \in Saved : /\ Sound(saved[s])
                         /\ saved[s] = Absent \/ saved[s].stage = s
    BY <2>1, <2>2, <2>3, <2>4
  <2>6. saved \in [Saved -> Payload]
    <3>1. saved = [s \in Saved |-> saved[s]]
      BY DEF PInit
    <3> QED
      BY <2>5, <3>1 DEF Sound
  <2>7. cache = [r \in BOOLEAN |-> Absent] /\ Absent \in Payload
    BY <2>3 DEF PInit, Sound
  <2> QED
    BY <2>5, <2>6, <2>7 DEF SavedOK
<1>4. StackOK
  <2>1. stack = <<Shell(<<>>)>>
    BY DEF PInit
  <2>2. <<>> \in Seq(Requests)
    OBVIOUS
  <2> QED
    BY <2>1, <2>2, ShellFine DEF StackOK
<1> QED
  BY <1>2, <1>3, <1>4 DEF PInv

\* Other programs and the operator leave the commands alone.
LEMMA WorldMoves ==
    ASSUME PInv, ChangeWorld \/ FileApproval \/ WithdrawApproval
    PROVE  PInv'
<1>1. UNCHANGED <<saved, cache, stack>>
  BY DEF ChangeWorld, FileApproval, WithdrawApproval
<1>2. filed \subseteq filed'
  BY DEF ChangeWorld, FileApproval, WithdrawApproval
<1>3. WorldOK'
  <2>1. CASE ChangeWorld
    <3>1. PICK field \in DOMAIN world :
            \E value \in IF field = "contract" THEN Contracts \cup {NoContract}
                         ELSE BOOLEAN :
              world' = [world EXCEPT ![field] = value]
      BY <2>1 DEF ChangeWorld
    <3>2. world \in World
      BY DEF PInv, WorldOK
    <3>3. field \in {"contract", "fresh", "probe", "mode"}
      BY <3>2 DEF World
    <3>4. world' \in World
      BY <3>1, <3>2, <3>3 DEF World
    <3> QED
      BY <2>1, <3>4 DEF PInv, WorldOK, ChangeWorld
  <2>2. CASE FileApproval
    <3>1. PICK p \in Paths :
            /\ files' = files \cup {p}
            /\ bound' = [bound EXCEPT ![p] = saved["draft"].hash]
      BY <2>2 DEF FileApproval
    <3>2. filed' = filed \cup {saved["draft"].hash} /\ world' = world
      BY <2>2 DEF FileApproval
    <3>3. saved["draft"] \in Payload
      BY DEF PInv, SavedOK, Saved
    <3>4. saved["draft"].hash \in Hashes
      BY <3>3 DEF Payload
    <3> DEFINE h == saved["draft"].hash
    <3> HIDE DEF h
    <3> QED
      BY <3>1, <3>2, <3>4 DEF PInv, WorldOK, h
  <2>3. CASE WithdrawApproval
    BY <2>3 DEF PInv, WorldOK, WithdrawApproval
  <2> QED
    BY <2>1, <2>2, <2>3
<1>4. SavedOK'
  BY <1>1, <1>2, SavedStays DEF PInv
<1>5. StackOK'
  <2>1. StackFor(stack')
    BY <1>1 DEF PInv, StackOK
  <2> QED
    BY <1>2, <2>1, StackMoves
<1> QED
  BY <1>3, <1>4, <1>5 DEF PInv

LEMMA ApprovalTyped ==
    ASSUME PInv, NEW r \in BOOLEAN
    PROVE  ApprovalForRefresh(r) \in AnyPath
  BY DEF PInv, WorldOK, ApprovalForRefresh, DefaultApproval, AnyPath, Paths

\* A step that leaves world, approvals and artifacts alone.
LEMMA OnlyStackMoves ==
    ASSUME PInv, UNCHANGED <<world, files, bound, saved, filed>>,
           cache' = cache \/ cache' = [r \in BOOLEAN |-> Absent],
           StackFor(stack')
    PROVE  PInv'
<1>1. WorldOK'
  BY DEF PInv, WorldOK
<1>2. SavedOK'
  <2>1. Absent \in Payload
    BY AbsentSound DEF Absent, Stages, Sound
  <2>2. \A v : Sound(v) => Sound(v)'
    BY DEF Sound, Backed
  <2>3. cache' \in [BOOLEAN -> Payload]
    BY <2>1 DEF PInv, SavedOK
  <2>4. \A r \in BOOLEAN : cache'[r] = Absent \/ cache'[r].stage = "packet"
    BY DEF PInv, SavedOK
  <2> QED
    BY <2>2, <2>3, <2>4 DEF PInv, SavedOK
<1>3. StackOK'
  BY StackMoves
<1> QED
  BY <1>1, <1>2, <1>3 DEF PInv

LEMMA StartRunKeeps == ASSUME PInv, StartRun PROVE PInv'
<1>1. PICK tool \in Tools, p \in AnyPath :
        stack' = <<Shell(<<Build(tool[1], TRUE, tool[2], p)>>)>>
  BY DEF StartRun, AnyPath
<1>2. tool[1] \in Saved /\ tool[2] \in BOOLEAN
  BY ToolsAreCommands
<1> DEFINE c == Build(tool[1], TRUE, tool[2], p)
<1>3. c \in Requests
  BY <1>2 DEF Build, Call, Requests
<1> HIDE DEF c
<1>4. <<c>> \in Seq(Requests)
  BY <1>3
<1>5. StackFor(<<Shell(<<c>>)>>)
  BY <1>4, ShellFine
<1>6. StackFor(stack')
  BY <1>1, <1>5 DEF c
<1>7. UNCHANGED <<world, files, bound, saved, filed>>
      /\ cache' = [r \in BOOLEAN |-> Absent]
  BY DEF StartRun
<1> QED
  BY <1>6, <1>7, OnlyStackMoves

\* What a call that is about to be made looks like.
LEMMA CalleeTyped ==
    ASSUME PInv, Calling
    PROVE  /\ Callee \in Requests
           /\ Len(Top.got) < Len(Top.calls)
<1>1. FrameOK(Top) /\ Top \in Frames
  BY DEF PInv, StackOK, StackFor, Top, FrameOK
<1>2. /\ Top.got \in Seq(Payload) /\ Top.calls \in Seq(Requests)
      /\ Len(Top.got) <= Len(Top.calls) /\ Len(Top.got) # Len(Top.calls)
  BY <1>1 DEF Frames, FrameOK, Calling, Full
<1> HIDE DEF Top
<1>3. Len(Top.got) + 1 \in 1..Len(Top.calls)
  BY <1>2
<1> QED
  BY <1>2, <1>3 DEF Callee

LEMMA FinishKeeps ==
    ASSUME PInv, Calling, NEW v, Sound(v), v.stage = Callee.stage, Finish(v)
    PROVE  StackFor(stack')
  BY CalleeTyped, TopAnswered DEF PInv, StackOK, Finish, Top, Callee

LEMMA BecomeKeeps ==
    ASSUME PInv, Calling, NEW c \in Requests, c.stage = Callee.stage,
           Become(c)
    PROVE  StackFor(stack')
  BY CalleeTyped, TopBecomes DEF PInv, StackOK, Become, Top, Callee

\* A call that is made gets a frame of its own.
LEMMA PushKeeps ==
    ASSUME PInv, Calling, NEW c \in Calls, NEW calls, Asks(calls, c.stage),
           c.stage = Callee.stage, c.op \in {"build", "read"},
           c.op = "read" => c.stage = "pipeline" /\ ~c.write,
           Push(Frame(c, calls))
    PROVE  StackFor(stack')
<1> DEFINE g == Frame(c, calls)
<1>1. /\ g.call = c /\ g.calls = calls /\ g.got = <<>>
      /\ g = [call |-> c, calls |-> calls, got |-> <<>>]
  BY DEF Frame
<1>2. calls \in Seq(Requests) /\ Len(calls) \in Nat
  BY DEF Asks
<1>3. <<>> \in Seq(Payload) /\ Len(<<>>) = 0
  OBVIOUS
<1>4. g \in Frames
  BY <1>1, <1>2, <1>3 DEF Frames
<1> HIDE DEF g
<1>5. FrameOK(g)
  <2>1. Len(g.got) = 0 /\ Len(g.calls) \in Nat
    BY <1>1, <1>2, <1>3
  <2> QED
    BY <1>1, <1>4, <2>1 DEF FrameOK
<1>6. Callee \in Requests /\ Len(Top.got) < Len(Top.calls)
  BY CalleeTyped
<1>7. c.stage \in Saved
  BY <1>6 DEF Requests
<1>8. IsBuild(g)
  BY <1>1, <1>7 DEF IsBuild
<1>9. WaitsFor(stack[Len(stack)], g)
  BY <1>1, <1>6 DEF WaitsFor, Top, Callee
<1>10. StackFor(stack)
  BY DEF PInv, StackOK
<1>11. stack' = Append(stack, g)
  BY DEF Push, g
<1> QED
  BY <1>5, <1>8, <1>9, <1>10, <1>11, FramePushed

LEMMA BuildInputsKeeps == ASSUME PInv, BuildInputs PROVE PInv'
<1> DEFINE c == Callee
           p == IF c.stage \in Resolving /\ c.path = NoPath
                THEN ApprovalForRefresh(c.refresh) ELSE c.path
           frame == [c EXCEPT !.path = p]
           calls == Inputs(c.stage, c.write, c.refresh, p)
<1>1. Calling /\ c.op = "build"
  BY DEF BuildInputs
<1>2. c \in Requests
  BY <1>1, CalleeTyped
<1>3. p \in AnyPath
  BY <1>2, ApprovalTyped DEF Requests
<1>4. UNCHANGED <<world, files, bound, saved, cache, filed>>
  BY DEF BuildInputs
<1>5. \/ /\ c.stage = "packet" /\ cache[c.refresh] # Absent
         /\ Finish(cache[c.refresh])
      \/ Push(Frame(frame, calls))
  BY DEF BuildInputs
<1> HIDE DEF c, p
<1>6. c.stage \in Saved /\ c.write \in BOOLEAN /\ c.refresh \in BOOLEAN
  BY <1>2 DEF Requests
<1>7. StackFor(stack')
  <2>1. CASE /\ c.stage = "packet" /\ cache[c.refresh] # Absent
             /\ Finish(cache[c.refresh])
    <3> DEFINE v == cache[c.refresh]
    <3>1. v \in Payload /\ v.stage = "packet"
      BY <1>6, <2>1 DEF PInv, SavedOK
    <3>2. v.stage \notin Verdicts
      BY <3>1 DEF Verdicts
    <3>3. Sound(v)
      BY <3>1, <3>2 DEF Sound, Backed
    <3>4. v.stage = Callee.stage /\ Finish(v)
      BY <2>1, <3>1 DEF c
    <3> HIDE DEF v
    <3> QED
      BY <1>1, <3>3, <3>4, FinishKeeps
  <2>2. CASE Push(Frame(frame, calls))
    <3>1. /\ frame \in Requests /\ frame.stage = c.stage
          /\ frame.op = "build"
      BY <1>1, <1>2, <1>3 DEF Requests
    <3>2. frame \in Calls
      BY <3>1 DEF Requests, Calls, CallOps, Stages, AnyPath
    <3>3. Asks(calls, frame.stage)
      BY <1>3, <1>6, <3>1, InputsAsk
    <3>4. frame.stage = Callee.stage
      BY <3>1 DEF c
    <3> HIDE DEF frame, calls
    <3> QED
      BY <1>1, <2>2, <3>1, <3>2, <3>3, <3>4, PushKeeps
  <2> QED
    BY <1>5, <2>1, <2>2
<1> QED
  BY <1>4, <1>7, OnlyStackMoves

LEMMA SavedOrBuiltKeeps == ASSUME PInv, SavedOrBuilt PROVE PInv'
<1> DEFINE c == Callee
<1>1. Calling /\ UNCHANGED <<world, files, bound, saved, cache, filed>>
  BY DEF SavedOrBuilt
<1>2. c \in Requests
  BY <1>1, CalleeTyped
<1>3. \/ Become(Read(c.stage))
      \/ Become([c EXCEPT !.op = "build"])
  BY DEF SavedOrBuilt
<1>4. /\ Read(c.stage) \in Requests /\ Read(c.stage).stage = c.stage
      /\ [c EXCEPT !.op = "build"] \in Requests
      /\ [c EXCEPT !.op = "build"].stage = c.stage
  BY <1>2 DEF Read, Call, Requests, AnyPath
<1>5. StackFor(stack')
  BY <1>1, <1>3, <1>4, BecomeKeeps
<1> QED
  BY <1>1, <1>5, OnlyStackMoves

LEMMA ReadSavedKeeps == ASSUME PInv, ReadSaved PROVE PInv'
<1> DEFINE s == Callee.stage
<1>1. Calling /\ UNCHANGED <<world, files, bound, saved, cache, filed>>
  BY DEF ReadSaved
<1>2. s \in Saved
  BY <1>1, CalleeTyped DEF Requests
<1>3. \/ ReadMissing(s)
      \/ s = "preflight" /\ Become(Build(s, FALSE, TRUE, NoPath))
      \/ saved[s] # Absent /\ Finish(saved[s])
  <2>1. saved[s] # Absent => saved[s].stage = s
    BY <1>2 DEF PInv, SavedOK
  <2> QED
    BY <2>1 DEF ReadSaved, Outdated
<1>4. \A r \in BOOLEAN : /\ Build(s, FALSE, r, NoPath) \in Requests
                         /\ Build(s, FALSE, r, NoPath).stage = s
  BY <1>2 DEF Build, Call, Requests, AnyPath
<1>5. StackFor(stack')
  <2>1. CASE s \in {"readiness", "preflight"} /\ Finish(Blank(s))
    <3>1. Sound(Blank(s)) /\ Blank(s).stage = s
      BY <1>2, AbsentSound, BlankTyped DEF Stages
    <3> QED
      BY <1>1, <2>1, <3>1, FinishKeeps
  <2>2. CASE /\ s = "pipeline"
             /\ Push(Frame(Read(s), RebuildOrRead(FALSE, Chain, FALSE, FALSE,
                                                  NoPath)))
    <3> DEFINE calls == RebuildOrRead(FALSE, Chain, FALSE, FALSE, NoPath)
               c == Read(s)
    <3>1. Needs("pipeline") = Chain /\ "pipeline" \in Saved
      BY DEF Needs, Saved
    <3>2. Chain \in Seq(Saved) /\ NoPath \in AnyPath
      BY <3>1, NeedsAreLower DEF AnyPath
    <3>3. Asks(calls, "pipeline")
      <4>1. /\ calls \in Seq(Requests)
            /\ Len(calls) = Len(Chain)
            /\ \A k \in 1..Len(Chain) : calls[k].stage = Chain[k]
        BY <3>2, RebuildOrReadAsks
      <4> HIDE DEF calls
      <4> QED
        BY <3>1, <4>1 DEF Asks
    <3>4. /\ c \in Calls /\ c.stage = "pipeline" /\ c.op = "read"
          /\ ~c.write
      BY <2>2 DEF Read, Call, Calls, CallOps, Stages, Saved, NoPath
    <3> HIDE DEF calls, c
    <3>5. Push(Frame(c, calls))
      BY <2>2 DEF calls, c
    <3> QED
      BY <1>1, <2>2, <3>3, <3>4, <3>5, PushKeeps
  <2>3. CASE \E r \in BOOLEAN : Become(Build(s, FALSE, r, NoPath))
    BY <1>1, <1>4, <2>3, BecomeKeeps
  <2>4. CASE saved[s] # Absent /\ Finish(saved[s])
    <3>1. Sound(saved[s]) /\ saved[s].stage = s
      BY <1>2, <2>4 DEF PInv, SavedOK
    <3> QED
      BY <1>1, <2>4, <3>1, FinishKeeps
  <2> QED
    BY <1>3, <2>1, <2>2, <2>3, <2>4 DEF ReadMissing
<1> QED
  BY <1>1, <1>5, OnlyStackMoves

\* The payload a frame computes from its answers.
LEMMA MadeSound ==
    ASSUME WorldOK, NEW f, FrameOK(f), IsBuild(f), Full(f)
    PROVE  LET c == f.call
               v == IF c.op = "read" THEN [Pipeline(f.got) EXCEPT !.ok = FALSE]
                    ELSE Result(c.stage, c.path, f.got)
           IN  Sound(v) /\ v.stage = c.stage
<1> DEFINE c == f.call
           res == Result(c.stage, c.path, f.got)
<1>1. f \in Frames /\ c \in Calls /\ c.stage \in Saved
  BY DEF FrameOK, Frames, IsBuild
<1>2. f.got \in Seq(Payload) /\ f.calls \in Seq(Requests)
  BY <1>1 DEF Frames
<1>3. c.path \in AnyPath
  BY <1>1 DEF Calls, AnyPath
<1>4. Asks(f.calls, c.stage)
  BY DEF FrameOK, IsBuild
<1>5. /\ Len(f.got) = Len(Needs(c.stage))
      /\ \A k \in 1..Len(f.got) : /\ Sound(f.got[k])
                                  /\ f.got[k].stage = Needs(c.stage)[k]
  BY <1>2, <1>4 DEF Full, FrameOK, Asks
<1>6. Sound(res) /\ res.stage = c.stage
  BY <1>1, <1>2, <1>3, <1>5, ResultSound
<1>7. CASE c.op = "read"
  <2> DEFINE v == [Pipeline(f.got) EXCEPT !.ok = FALSE]
  <2>1. c.stage = "pipeline"
    BY <1>7 DEF IsBuild
  <2>2. res = Pipeline(f.got)
    BY <2>1 DEF Result
  <2>3. Pipeline(f.got) \in Payload /\ Pipeline(f.got).stage = "pipeline"
    BY <1>6, <2>1, <2>2 DEF Sound
  <2>4. v \in Payload /\ v.stage = "pipeline"
    BY <2>3 DEF Payload
  <2> HIDE DEF v
  <2>5. Sound(v)
    BY <2>4 DEF Sound, Backed, Verdicts
  <2> QED
    BY <1>7, <2>1, <2>4, <2>5 DEF v
<1> QED
  BY <1>6, <1>7

LEMMA MakeKeeps == ASSUME PInv, Make PROVE PInv'
<1> DEFINE c      == Top.call
           result == IF c.op = "read"
                     THEN [Pipeline(Top.got) EXCEPT !.ok = FALSE]
                     ELSE Result(c.stage, c.path, Top.got)
           outer  == SubSeq(stack, 1, Len(stack) - 1)
<1>1. /\ Full(Top) /\ Len(stack) > 1
      /\ UNCHANGED <<world, files, bound, filed>>
  BY DEF Make
<1>2. StackFor(stack) /\ WorldOK
  BY DEF PInv, StackOK
<1>3. FrameOK(Top) /\ IsBuild(Top)
  <2>1. Len(stack) \in Nat
    BY <1>2 DEF StackFor
  <2>2. Len(stack) \in 1..Len(stack) /\ Len(stack) \in 2..Len(stack)
    BY <1>1, <2>1
  <2> QED
    BY <1>2, <2>2 DEF StackFor, Top
<1>4. Sound(result) /\ result.stage = c.stage
  BY <1>1, <1>2, <1>3, MadeSound
<1>5. /\ stack' = [outer EXCEPT ![Len(outer)].got = Append(@, result)]
      /\ saved' = IF c.write THEN [saved EXCEPT ![c.stage] = result] ELSE saved
      /\ cache' = IF c.stage = "packet" /\ ~c.write
                  THEN [cache EXCEPT ![c.refresh] = result]
                  ELSE IF c.stage = "readiness" /\ c.write
                  THEN [r \in BOOLEAN |-> Absent] ELSE cache
  BY DEF Make
<1>6. /\ StackFor(outer) /\ WaitsFor(outer[Len(outer)], Top)
  BY <1>1, <1>2, FramePopped DEF Top
<1>7. c.stage \in Saved /\ c.refresh \in BOOLEAN
  BY <1>3 DEF IsBuild, FrameOK, Frames, Calls
<1> HIDE DEF result, outer, c
<1>8. StackFor(stack')
  BY <1>4, <1>5, <1>6, TopAnswered DEF WaitsFor, c
<1>9. WorldOK'
  BY <1>1, <1>2 DEF WorldOK
<1>10. StackOK'
  BY <1>1, <1>8, StackMoves
<1>11. SavedOK'
  <2>1. \A v : Sound(v) => Sound(v)'
    BY <1>1 DEF Sound, Backed
  <2>2. result \in Payload /\ Absent \in Payload
    BY <1>4, AbsentSound DEF Sound, Absent, Stages
  <2>3. saved' \in [Saved -> Payload] /\ cache' \in [BOOLEAN -> Payload]
    BY <1>5, <1>7, <2>2 DEF PInv, SavedOK
  <2>4. \A s \in Saved : /\ Sound(saved'[s])
                         /\ saved'[s] = Absent \/ saved'[s].stage = s
    BY <1>4, <1>5, <1>7 DEF PInv, SavedOK
  <2>5. \A r \in BOOLEAN : cache'[r] = Absent \/ cache'[r].stage = "packet"
    BY <1>4, <1>5, <1>7 DEF PInv, SavedOK
  <2> HIDE DEF result
  <2>6. \A s \in Saved : \A v : v = saved'[s] /\ Sound(v) => Sound(v)'
    BY <2>1
  <2> QED
    BY <1>1, <2>3, <2>4, <2>5 DEF SavedOK, Sound, Backed
<1> QED
  BY <1>9, <1>10, <1>11 DEF PInv
-----------------------------------------------------------------------------
(* The theorems.                                                           *)

LEMMA StepKeeps == ASSUME PInv, [PNext]_pvars PROVE PInv'
<1>1. CASE ChangeWorld \/ FileApproval \/ WithdrawApproval
  BY <1>1, WorldMoves
<1>2. CASE StartRun
  BY <1>2, StartRunKeeps
<1>3. CASE BuildInputs
  BY <1>3, BuildInputsKeeps
<1>4. CASE SavedOrBuilt
  BY <1>4, SavedOrBuiltKeeps
<1>5. CASE ReadSaved
  BY <1>5, ReadSavedKeeps
<1>6. CASE Make
  BY <1>6, MakeKeeps
<1>7. CASE UNCHANGED pvars
  <2>1. UNCHANGED <<world, files, bound, saved, filed, cache, stack>>
    BY <1>7 DEF pvars
  <2>2. StackFor(stack')
    BY <2>1 DEF PInv, StackOK
  <2> QED
    BY <2>1, <2>2, OnlyStackMoves
<1> QED
  BY <1>1, <1>2, <1>3, <1>4, <1>5, <1>6, <1>7 DEF PNext, RunStep

\* The invariant holds for any contracts, commands and bounds.
THEOREM PInvHolds == PSpec => []PInv
<1>1. PInit => PInv
  BY InitEstablishes
<1>2. PInv /\ [PNext]_pvars => PInv'
  BY StepKeeps
<1> QED
  BY <1>1, <1>2, PTL DEF PSpec

\* The payloads and calls are typed, and every builder gets the answers to
\* its own calls in their order (payloads by position, as the builders read
\* them).
THEOREM PTypeCorrect == PSpec => []PTypeOK
<1>1. PInv => PTypeOK
  <2> SUFFICES ASSUME PInv PROVE PTypeOK
    OBVIOUS
  <2>1. stack \in Seq(Frames) /\ stack # <<>>
    BY DEF PInv, StackOK, StackFor
  <2>2. \A i \in DOMAIN stack : FrameOK(stack[i])
    BY <2>1 DEF PInv, StackOK, StackFor
  <2>3. ASSUME NEW f, FrameOK(f)
        PROVE  /\ f.call \in Calls
               /\ \A k \in DOMAIN f.calls : f.calls[k] \in Calls
               /\ Len(f.got) <= Len(f.calls)
               /\ \A k \in DOMAIN f.got : /\ f.got[k] \in Payload
                                          /\ f.got[k].stage = f.calls[k].stage
    <3>1. /\ f.call \in Calls /\ f.calls \in Seq(Requests)
          /\ f.got \in Seq(Payload)
      BY <2>3 DEF FrameOK, Frames
    <3>2. DOMAIN f.calls = 1..Len(f.calls) /\ DOMAIN f.got = 1..Len(f.got)
      BY <3>1
    <3>3. Requests \subseteq Calls
      BY DEF Requests, Calls, CallOps, Stages, AnyPath
    <3> QED
      BY <2>3, <3>1, <3>2, <3>3 DEF FrameOK, Sound
  <2>4. \A s \in Saved : saved[s].stage \in {s, "absent"}
    <3>1. Absent.stage = "absent"
      BY DEF Absent, Blank
    <3> QED
      BY <3>1 DEF PInv, SavedOK
  <2> QED
    BY <2>1, <2>2, <2>3, <2>4 DEF PTypeOK, PInv, WorldOK, SavedOK
<1> QED
  BY <1>1, PInvHolds, PTL

\* No verdict is ever ready for a review packet the operator never approved,
\* whatever was saved by which command, and however the world and the
\* approvals changed in between.
THEOREM ApprovalBackedHolds == PSpec => []ApprovalBacked
<1>1. PInv => ApprovalBacked
  <2> SUFFICES ASSUME PInv PROVE ApprovalBacked
    OBVIOUS
  <2>1. \A s \in Verdicts : saved[s].ok => saved[s].hash \in filed
    <3> TAKE s \in Verdicts
    <3>1. s \in Saved
      BY DEF Verdicts, Saved
    <3>2. Absent.ok = FALSE
      BY DEF Absent, Blank
    <3> QED
      BY <3>1, <3>2 DEF PInv, SavedOK, Sound, Backed
  <2>2. ASSUME NEW i \in DOMAIN stack, NEW k \in DOMAIN stack[i].got
        PROVE  Sound(stack[i].got[k])
    <3>1. stack \in Seq(Frames) /\ i \in 1..Len(stack) /\ FrameOK(stack[i])
      BY DEF PInv, StackOK, StackFor
    <3>2. stack[i] \in Frames
      BY <3>1 DEF FrameOK
    <3>3. stack[i].got \in Seq(Payload)
      BY <3>2 DEF Frames
    <3>4. k \in 1..Len(stack[i].got)
      BY <3>3
    <3> QED
      BY <3>1, <3>4 DEF FrameOK
  <2> QED
    BY <2>1, <2>2 DEF ApprovalBacked, Sound, Backed
<1> QED
  BY <1>1, PInvHolds, PTL

\* The calls that wait are all of different stages: no builder waits for
\* itself, so the depth of the calls is bounded by the number of stages.
THEOREM NoRecursionHolds == PSpec => []NoRecursion
<1>1. PInv => NoRecursion
  <2> SUFFICES ASSUME PInv, NEW i \in DOMAIN stack, NEW j \in DOMAIN stack,
                      stack[i].call.stage = stack[j].call.stage
               PROVE  i = j
    BY DEF NoRecursion
  <2>1. stack \in Seq(Frames) /\ i \in 1..Len(stack) /\ j \in 1..Len(stack)
    BY DEF PInv, StackOK, StackFor
  <2>2. Rank(stack[i].call.stage) \in Nat
    <3>1. stack[i] \in Frames
      BY <2>1
    <3>2. stack[i].call.stage \in Stages
      BY <3>1 DEF Frames, Calls
    <3> QED
      BY <3>2, RankIsInt
  <2>3. /\ i < j => Rank(stack[j].call.stage) < Rank(stack[i].call.stage)
        /\ j < i => Rank(stack[i].call.stage) < Rank(stack[j].call.stage)
    BY <2>1 DEF PInv, StackOK, StackFor
  <2> QED
    BY <2>1, <2>2, <2>3
<1> QED
  BY <1>1, PInvHolds, PTL
-----------------------------------------------------------------------------
(***************************************************************************)
(* Refreshing commands.  A command that refreshes never reads what earlier *)
(* ones saved: every call of its tree builds, and what it gets was earned  *)
(* from a world and an approval it saw itself.  When it saw only one       *)
(* moment, and that deserves the verdict, every call stands by the         *)
(* approval the command started with, and every answer says so.            *)
(***************************************************************************)
\* The stages that need no approval.
Plain == {"readiness", "packet", "draft", "plan"}

\* An approval of h was on disk, and h was the packet of a real contract.
Vouched(h) ==
    /\ \E now \in seen, p \in Paths : p \in now.files /\ now.bound[p] = h
    /\ \E now \in seen : /\ now.world.contract # NoContract
                         /\ HashOf(now.world) = h

Probed == \E now \in seen : now.world.probe /\ now.world.mode

\* What v says is ready was so at moments of this run.
Earned(v) ==
    v.ok =>
      /\ v.stage \in {"readiness", "packet", "draft"} =>
           \E now \in seen : /\ now.world.contract # NoContract
                             /\ HashOf(now.world) = v.hash
      /\ v.stage \in Verdicts => Vouched(v.hash)
      /\ v.stage \in Probing => (\E h \in Hashes : Vouched(h)) /\ Probed

\* The only moment of this run deserves an approved packet.
Deserving(now) ==
    /\ seen = {now}
    /\ now.world.contract # NoContract
    /\ run.path \in now.files
    /\ now.bound[run.path] = HashOf(now.world)

\* The dry-run intent of that moment.
IntentOf(now) == [example |-> now.world.contract, hash |-> HashOf(now.world)]

\* What v has to say then.
Merit(v, now) ==
    /\ v.stage \notin Probing => v.ok /\ v.hash = HashOf(now.world)
    /\ v.stage \in {"evidence", "plan", "lane", "replay", "preflight"} =>
         v.rows
    /\ v.stage \in {"plan", "lane", "replay"} => v.intent = IntentOf(now)
    /\ v.stage = "evidence" => v.path = run.path
    /\ v.stage \in Probing /\ now.world.probe /\ now.world.mode =>
         v.ok /\ ~v.modeOnly /\ (v.stage \in {"contract", "sandbox"} => v.rows)

Fresh(v) == Earned(v) /\ \A now \in seen : Deserving(now) => Merit(v, now)

\* The call stands by the approval of the command: it names it, or it will
\* find it.
Leads(c) ==
    \/ c.stage \in Plain
    \/ c.path = run.path
    \/ /\ c.path = NoPath /\ c.stage # "evidence"
       /\ ApprovalForRefresh(TRUE) = run.path

Faithful(c) == \A now \in seen : Deserving(now) => Leads(c)

FreshCall(c) == c.op \in {"build", "either"} /\ c.refresh /\ Faithful(c)

\* A frame of a refreshing command.
FreshFrame(f) ==
    /\ \A k \in 1..Len(f.calls) : FreshCall(f.calls[k])
    /\ f.call.op # "shell" =>
         /\ f.call.op = "build" /\ f.call.refresh /\ Faithful(f.call)
         /\ f.call.stage \in Resolving =>
              \A now \in seen : Deserving(now) => f.call.path = run.path

Answered(f) == \A k \in 1..Len(f.got) : Fresh(f.got[k])

\* While a command is under way it sees every moment.
SeenOK == IsFiniteSet(seen) /\ (~Idle => Now \in seen)

Commanded ==
    /\ run.stage \in Saved =>
         /\ Len(stack[1].calls) = 1
         /\ stack[1].calls[1].stage = run.stage
    /\ run.refresh \in BOOLEAN

FreshRun ==
    /\ \A i \in 1..Len(stack) : Answered(stack[i])
    /\ ~Idle =>
         /\ \A i \in 1..Len(stack) : FreshFrame(stack[i])
         /\ cache[TRUE] # Absent => Fresh(cache[TRUE])

\* The inductive invariant.
RInv == PInv /\ SeenOK /\ Commanded /\ (run.refresh => FreshRun)
-----------------------------------------------------------------------------
\* What was earned stays earned, and while a command is under way no moment
\* is forgotten.
LEMMA FreshStays ==
    ASSUME run' = run, seen \subseteq seen', seen' = seen \/ seen # {},
           NEW v, Fresh(v)
    PROVE  Fresh(v)'
<1>1. \A h : Vouched(h) => Vouched(h)'
  BY DEF Vouched
<1>2. Probed => Probed'
  BY DEF Probed
<1>3. Earned(v)'
  BY <1>1, <1>2 DEF Fresh, Earned
<1>4. \A now : Deserving(now)' => Deserving(now)
  BY DEF Deserving
<1>5. ASSUME NEW now \in seen', Deserving(now)' PROVE Merit(v, now)'
  <2>1. Deserving(now) /\ now \in seen
    BY <1>4, <1>5 DEF Deserving
  <2>2. Merit(v, now)
    BY <2>1 DEF Fresh
  <2> QED
    BY <2>2 DEF Merit
<1> QED
  BY <1>3, <1>5 DEF Fresh

\* The approval found by a call is that of the command as long as the saved
\* evidence review only changes to one that accepted it.
LEMMA FaithfulStays ==
    ASSUME run' = run, seen \subseteq seen', Now \in seen, Now' \in seen',
           \/ saved'["evidence"] = saved["evidence"]
           \/ \A now \in seen : Deserving(now) =>
                saved'["evidence"].ok /\ saved'["evidence"].path = run.path,
           NEW c, Faithful(c)
    PROVE  Faithful(c)'
<1> SUFFICES ASSUME NEW now \in seen', Deserving(now)' PROVE Leads(c)'
  BY DEF Faithful
<1>1. Deserving(now) /\ now \in seen
  BY DEF Deserving
<1>2. Leads(c)
  BY <1>1 DEF Faithful
<1>3. seen = {now} /\ seen' = {now} /\ run.path \in now.files
  BY <1>1 DEF Deserving
<1>4. Now = now /\ Now' = now
  BY <1>3
<1>5. files = now.files /\ files' = now.files
  BY <1>4 DEF Now
<1>6. CASE saved'["evidence"] = saved["evidence"]
  <2>1. ApprovalForRefresh(TRUE)' = ApprovalForRefresh(TRUE)
    BY <1>5, <1>6 DEF ApprovalForRefresh, DefaultApproval
  <2> QED
    BY <1>2, <2>1 DEF Leads
<1>7. CASE saved'["evidence"].ok /\ saved'["evidence"].path = run.path
  <2>1. ApprovalForRefresh(TRUE)' = run.path
    BY <1>3, <1>5, <1>7 DEF ApprovalForRefresh
  <2> QED
    BY <1>2, <2>1 DEF Leads
<1> QED
  BY <1>1, <1>6, <1>7

\* The inputs of a refreshing builder are built again, by its approval.
LEMMA RebuiltFresh ==
    ASSUME NEW ss \in Seq(Saved), NEW w \in BOOLEAN, NEW p \in AnyPath,
           \A k \in 1..Len(ss) : \A now \in seen : Deserving(now) =>
             \/ ss[k] \in Plain \/ p = run.path
             \/ /\ p = NoPath /\ ss[k] # "evidence"
                /\ ApprovalForRefresh(TRUE) = run.path
    PROVE  LET calls == RebuildOrRead(TRUE, ss, w, TRUE, p)
           IN  \A k \in 1..Len(calls) : FreshCall(calls[k])
<1> DEFINE calls == RebuildOrRead(TRUE, ss, w, TRUE, p)
<1>1. DOMAIN ss = 1..Len(ss) /\ Len(ss) \in Nat
  OBVIOUS
<1>2. calls = [i \in 1..Len(ss) |-> Call("build", ss[i], w, TRUE, p)]
  BY <1>1 DEF RebuildOrRead, Source, Build
<1>3. Len(calls) = Len(ss)
  <2>1. TRUE \in BOOLEAN
    OBVIOUS
  <2>2. /\ calls \in Seq(Requests)
        /\ Len(calls) = Len(ss)
        /\ \A k \in 1..Len(ss) : calls[k].stage = ss[k]
    BY <2>1, RebuildOrReadAsks
  <2> QED
    BY <2>2
<1> HIDE DEF calls
<1>4. ASSUME NEW k \in 1..Len(ss) PROVE FreshCall(calls[k])
  <2>1. calls[k] = Call("build", ss[k], w, TRUE, p)
    BY <1>2
  <2>2. /\ calls[k].op = "build" /\ calls[k].refresh = TRUE
        /\ calls[k].stage = ss[k] /\ calls[k].path = p
    BY <2>1 DEF Call
  <2> QED
    BY <2>2 DEF FreshCall, Faithful, Leads
<1>5. \A k \in 1..Len(calls) : FreshCall(calls[k])
  BY <1>3, <1>4
<1> QED
  BY <1>5 DEF calls

\* What a refreshing builder asks for.
LEMMA InputsFresh ==
    ASSUME NEW s \in Saved, NEW w \in BOOLEAN, NEW p \in AnyPath,
           \A now \in seen : Deserving(now) =>
             \/ s \in Plain \/ p = run.path
             \/ /\ p = NoPath /\ s \notin Resolving \cup {"evidence"}
                /\ ApprovalForRefresh(TRUE) = run.path
    PROVE  \A k \in 1..Len(Inputs(s, w, TRUE, p)) :
             FreshCall(Inputs(s, w, TRUE, p)[k])
<1> USE DEF AnyPath
<1>1. CASE s = "readiness"
  <2>1. Inputs(s, w, TRUE, p) = <<>>
    BY <1>1 DEF Inputs
  <2>2. Len(<<>>) = 0
    OBVIOUS
  <2>3. \A k \in 1..Len(<<>>) : FALSE
    BY <2>2
  <2> QED
    BY <2>1, <2>3
<1>2. CASE s \in {"packet", "draft"}
  <2>1. PICK ss \in {<<"readiness">>, <<"packet">>} :
          Inputs(s, w, TRUE, p) = RebuildOrRead(TRUE, ss, w, TRUE, NoPath)
    BY <1>2 DEF Inputs, PacketInputs, DraftInputs
  <2>2. /\ ss \in Seq(Saved) /\ Len(ss) = 1
        /\ \A k \in 1..Len(ss) : ss[k] \in Plain
    <3>1. /\ <<"readiness">> \in Seq(Saved) /\ Len(<<"readiness">>) = 1
          /\ <<"readiness">>[1] = "readiness"
      BY DEF Saved
    <3>2. /\ <<"packet">> \in Seq(Saved) /\ Len(<<"packet">>) = 1
          /\ <<"packet">>[1] = "packet"
      BY DEF Saved
    <3>3. "readiness" \in Plain /\ "packet" \in Plain
      BY DEF Plain
    <3>4. CASE ss = <<"readiness">>
      BY <3>1, <3>3, <3>4
    <3>5. CASE ss = <<"packet">>
      BY <3>2, <3>3, <3>5
    <3> QED
      BY <3>4, <3>5
  <2>3. NoPath \in AnyPath
    OBVIOUS
  <2> QED
    BY <2>1, <2>2, <2>3, RebuiltFresh
<1>3. CASE s = "evidence"
  <2> DEFINE draft == Build("draft", w /\ TRUE, TRUE, NoPath)
  <2>1. Inputs(s, w, TRUE, p) = <<draft>>
    BY <1>3 DEF Inputs, EvidenceInputs
  <2>2. FreshCall(draft)
    <3>1. /\ draft.op = "build" /\ draft.refresh = TRUE
          /\ draft.stage = "draft"
      BY DEF Build, Call
    <3> HIDE DEF draft
    <3> QED
      BY <3>1 DEF FreshCall, Faithful, Leads, Plain
  <2> HIDE DEF draft
  <2>3. Len(<<draft>>) = 1 /\ <<draft>>[1] = draft
    OBVIOUS
  <2>4. \A k \in 1..Len(<<draft>>) : FreshCall(<<draft>>[k])
    BY <2>2, <2>3
  <2> QED
    BY <2>1, <2>4
<1>4. CASE s = "plan"
  <2> DEFINE first == Source(TRUE, "packet", w, TRUE, NoPath)
             second == Build("draft", w, TRUE, NoPath)
  <2>1. Inputs(s, w, TRUE, p) = <<first, second>>
    BY <1>4 DEF Inputs, PlanInputs
  <2>2. FreshCall(first)
    <3>1. /\ first.op = "build" /\ first.refresh = TRUE
          /\ first.stage = "packet"
      BY DEF Source, Build, Call
    <3> HIDE DEF first
    <3> QED
      BY <3>1 DEF FreshCall, Faithful, Leads, Plain
  <2>3. FreshCall(second)
    <3>1. /\ second.op = "build" /\ second.refresh = TRUE
          /\ second.stage = "draft"
      BY DEF Build, Call
    <3> HIDE DEF second
    <3> QED
      BY <3>1 DEF FreshCall, Faithful, Leads, Plain
  <2> HIDE DEF first, second
  <2> DEFINE both == <<first, second>>
  <2>4. Len(both) = 2 /\ both[1] = first /\ both[2] = second
    OBVIOUS
  <2> HIDE DEF both
  <2>5. \A k \in 1..Len(both) : k = 1 \/ k = 2
    BY <2>4
  <2>6. \A k \in 1..Len(both) : FreshCall(both[k])
    BY <2>2, <2>3, <2>4, <2>5
  <2> QED
    BY <2>1, <2>6 DEF both
<1>5. CASE s = "pipeline"
  <2>1. Inputs(s, w, TRUE, p) = RebuildOrRead(TRUE, Chain, w, TRUE, p)
    BY <1>5 DEF Inputs, PipelineInputs
  <2>2. Chain \in Seq(Saved)
    BY <1>5, NeedsAreLower DEF Needs
  <2>3. \A now \in seen : Deserving(now) => p = run.path
    BY <1>5 DEF Plain, Resolving
  <2> QED
    BY <2>1, <2>2, <2>3, RebuiltFresh
<1>6. CASE s = "orchestrator"
  <2> DEFINE calls == [i \in DOMAIN Everything |->
                         Call("either", Everything[i], w, TRUE, p)]
  <2>1. Inputs(s, w, TRUE, p) = calls
    BY <1>6 DEF Inputs, OrchestratorInputs
  <2>2. Everything \in Seq(Saved)
    BY <1>6, NeedsAreLower DEF Needs
  <2>3. DOMAIN Everything = 1..Len(Everything) /\ Len(Everything) \in Nat
    BY <2>2
  <2>4. \A now \in seen : Deserving(now) => p = run.path
    BY <1>6 DEF Plain, Resolving
  <2>5. ASSUME NEW k \in 1..Len(Everything) PROVE FreshCall(calls[k])
    <3>1. calls[k] = Call("either", Everything[k], w, TRUE, p)
      BY <2>3
    <3>2. /\ calls[k].op = "either" /\ calls[k].refresh = TRUE
          /\ calls[k].path = p
      BY <3>1 DEF Call
    <3> HIDE DEF calls
    <3> QED
      BY <2>4, <3>2 DEF FreshCall, Faithful, Leads
  <2>6. Len(calls) = Len(Everything)
    BY <2>3
  <2> HIDE DEF calls
  <2> QED
    BY <2>1, <2>5, <2>6
<1>7. CASE s \in {"lane", "replay", "preflight", "contract", "adapter",
                  "sandbox", "validator"}
  <2>1. Inputs(s, w, TRUE, p) = RebuildOrRead(TRUE, Needs(s), w, TRUE, p)
    BY <1>7 DEF Inputs, Needs
  <2>2. Needs(s) \in Seq(Saved)
    BY NeedsAreLower
  <2>3. s \notin Plain
    BY <1>7 DEF Plain
  <2>4. ASSUME s \notin Resolving
        PROVE  \A k \in 1..Len(Needs(s)) : Needs(s)[k] # "evidence"
    <3>1. s \in {"adapter", "sandbox", "validator"}
      BY <1>7, <2>4 DEF Resolving
    <3>2. Len(Needs(s)) = 2
      BY <3>1, InputNames
    <3>3. \A k \in 1..Len(Needs(s)) : k = 1 \/ k = 2
      BY <3>2
    <3>4. Needs(s)[1] # "evidence" /\ Needs(s)[2] # "evidence"
      BY <3>1, InputNames
    <3> QED
      BY <3>3, <3>4
  <2> QED
    BY <2>1, <2>2, <2>3, <2>4, RebuiltFresh
<1> QED
  BY <1>1, <1>2, <1>3, <1>4, <1>5, <1>6, <1>7 DEF Saved

\* What a refreshing builder computes from fresh answers is fresh.
LEMMA ResultFresh ==
    ASSUME WorldOK, Now \in seen, NEW s \in Saved, NEW p \in AnyPath,
           NEW in \in Seq(Payload), Len(in) = Len(Needs(s)),
           \A k \in 1..Len(in) : Fresh(in[k]) /\ in[k].stage = Needs(s)[k],
           s \in Resolving \cup {"evidence"} =>
             \A now \in seen : Deserving(now) => p = run.path
    PROVE  Fresh(Result(s, p, in))
<1>calm. \A now \in seen : Deserving(now) =>
        /\ world = now.world /\ files = now.files /\ bound = now.bound
        /\ now.world.contract # NoContract
        /\ HashOf(now.world).contract = now.world.contract
        /\ run.path \in now.files
        /\ now.bound[run.path] = HashOf(now.world)
  <2> SUFFICES ASSUME NEW now \in seen, Deserving(now)
               PROVE  /\ world = now.world /\ files = now.files
                      /\ bound = now.bound
                      /\ now.world.contract # NoContract
                      /\ HashOf(now.world).contract = now.world.contract
                      /\ run.path \in now.files
                      /\ now.bound[run.path] = HashOf(now.world)
    OBVIOUS
  <2>1. now = Now
    BY DEF Deserving
  <2> QED
    BY <2>1 DEF Deserving, Now, HashOf
<1>typed. \A k \in 1..Len(in) : in[k] \in Payload
  OBVIOUS
<1>1. CASE s = "readiness"
  <2> DEFINE v == Readiness(world)
  <2>1. Result(s, p, in) = v
    BY <1>1 DEF Result
  <2>3. /\ v.stage = "readiness"
        /\ v.ok = (world.contract # NoContract)
        /\ v.hash = HashOf(world)
    BY DEF Readiness, Blank
  <2> HIDE DEF v
  <2>5. Earned(v)
    <3>1. Now.world = world
      BY DEF Now
    <3> QED
      BY <2>3, <3>1 DEF Earned, Verdicts, Probing
  <2>6. ASSUME NEW now \in seen, Deserving(now) PROVE Merit(v, now)
    BY <1>calm, <2>3, <2>6 DEF Merit, Probing
  <2> QED
    BY <2>1, <2>5, <2>6 DEF Fresh
<1>2. CASE s = "packet"
  <2> DEFINE v == Copied("packet", in)
  <2>1. Result(s, p, in) = v
    BY <1>2 DEF Result
  <2>2. /\ Fresh(in[1]) /\ in[1].stage = "readiness" /\ in[1] \in Payload
    <3>1. Len(in) = 1
      BY <1>2, InputNames
    <3> QED
      BY <1>2, <3>1, InputNames
  <2>3. /\ v.stage = "packet"
        /\ v.ok = in[1].ok
        /\ v.hash = in[1].hash
    BY DEF Copied, Blank
  <2> HIDE DEF v
  <2>5. Earned(v)
    BY <2>2, <2>3 DEF Fresh, Earned, Verdicts, Probing
  <2>6. ASSUME NEW now \in seen, Deserving(now) PROVE Merit(v, now)
    <3>1. Merit(in[1], now)
      BY <2>2, <2>6 DEF Fresh
    <3> QED
      BY <1>calm, <1>2, <2>2, <2>3, <2>6, <3>1
      DEF Merit, Probing, Payload
  <2> QED
    BY <2>1, <2>5, <2>6 DEF Fresh
<1>3. CASE s = "draft"
  <2> DEFINE v == Copied("draft", in)
  <2>1. Result(s, p, in) = v
    BY <1>3 DEF Result
  <2>2. /\ Fresh(in[1]) /\ in[1].stage = "packet" /\ in[1] \in Payload
    <3>1. Len(in) = 1
      BY <1>3, InputNames
    <3> QED
      BY <1>3, <3>1, InputNames
  <2>3. /\ v.stage = "draft"
        /\ v.ok = in[1].ok
        /\ v.hash = in[1].hash
    BY DEF Copied, Blank
  <2> HIDE DEF v
  <2>5. Earned(v)
    BY <2>2, <2>3 DEF Fresh, Earned, Verdicts, Probing
  <2>6. ASSUME NEW now \in seen, Deserving(now) PROVE Merit(v, now)
    <3>1. Merit(in[1], now)
      BY <2>2, <2>6 DEF Fresh
    <3> QED
      BY <1>calm, <1>3, <2>2, <2>3, <2>6, <3>1
      DEF Merit, Probing, Payload
  <2> QED
    BY <2>1, <2>5, <2>6 DEF Fresh
<1>4. CASE s = "evidence"
  <2> DEFINE v == Evidence(p, in)
  <2>1. Result(s, p, in) = v
    BY <1>4 DEF Result
  <2>2. /\ Fresh(in[1]) /\ in[1].stage = "draft" /\ in[1] \in Payload
    <3>1. Len(in) = 1
      BY <1>4, InputNames
    <3> QED
      BY <1>4, <3>1, InputNames
  <2>3. /\ v.stage = "evidence"
        /\ v.ok = (p \in files /\ in[1].ok /\ bound[p] = in[1].hash)
        /\ v.hash = in[1].hash
        /\ v.path = p
        /\ v.rows = (p \in files)
    BY DEF Evidence, Blank
  <2> HIDE DEF v
  <2>5. Earned(v)
    <3>1. Now.files = files /\ Now.bound = bound
      BY DEF Now
    <3>2. files \subseteq Paths
      BY DEF WorldOK
    <3>3. v.ok => Vouched(v.hash)
      <4> SUFFICES ASSUME v.ok PROVE Vouched(v.hash)
        OBVIOUS
      <4>1. p \in files /\ in[1].ok /\ bound[p] = v.hash
        BY <2>3
      <4>2. p \in Paths /\ p \in Now.files /\ Now.bound[p] = v.hash
        BY <3>1, <3>2, <4>1
      <4>3. \E now \in seen : /\ now.world.contract # NoContract
                             /\ HashOf(now.world) = v.hash
        BY <2>2, <2>3, <4>1 DEF Fresh, Earned
      <4> QED
        BY <4>2, <4>3 DEF Vouched
    <3> QED
      BY <2>3, <3>3 DEF Earned, Probing
  <2>6. ASSUME NEW now \in seen, Deserving(now) PROVE Merit(v, now)
    <3>1. Merit(in[1], now)
      BY <2>2, <2>6 DEF Fresh
    <3> QED
      BY <1>calm, <1>4, <2>2, <2>3, <2>6, <3>1
      DEF Merit, Probing, Resolving, Payload
  <2> QED
    BY <2>1, <2>5, <2>6 DEF Fresh
<1>5. CASE s = "plan"
  <2> DEFINE v == Plan(in)
  <2>1. Result(s, p, in) = v
    BY <1>5 DEF Result
  <2>2. /\ Fresh(in[1]) /\ in[1].stage = "packet" /\ in[1] \in Payload
        /\ Fresh(in[2]) /\ in[2].stage = "draft" /\ in[2] \in Payload
    <3>1. Len(in) = 2
      BY <1>5, InputNames
    <3> QED
      BY <1>5, <3>1, InputNames
  <2>3. /\ v.stage = "plan"
        /\ v.ok = in[1].ok
        /\ v.hash = in[2].hash
        /\ v.rows = in[1].ok
        /\ v.intent = IF in[1].ok
                        THEN [example |-> in[1].hash.contract,
                              hash |-> in[2].hash]
                        ELSE NoIntent
    BY DEF Plan, Blank
  <2> HIDE DEF v
  <2>5. Earned(v)
    BY <2>2, <2>3 DEF Fresh, Earned, Verdicts, Probing
  <2>6. ASSUME NEW now \in seen, Deserving(now) PROVE Merit(v, now)
    <3>1. Merit(in[1], now) /\ Merit(in[2], now)
      BY <2>2, <2>6 DEF Fresh
    <3> QED
      BY <1>calm, <1>5, <2>2, <2>3, <2>6, <3>1
      DEF Merit, Probing, IntentOf, Payload
  <2> QED
    BY <2>1, <2>5, <2>6 DEF Fresh
<1>6. CASE s = "lane"
  <2> DEFINE v == LaneSpec(in)
  <2>1. Result(s, p, in) = v
    BY <1>6 DEF Result
  <2>2. /\ Fresh(in[1]) /\ in[1].stage = "evidence" /\ in[1] \in Payload
        /\ Fresh(in[2]) /\ in[2].stage = "plan" /\ in[2] \in Payload
    <3>1. Len(in) = 2
      BY <1>6, InputNames
    <3> QED
      BY <1>6, <3>1, InputNames
  <2>3. /\ v.stage = "lane"
        /\ v.ok = (in[1].ok /\ in[1].rows /\ in[2].rows)
        /\ v.hash = in[1].hash
        /\ v.rows = (in[1].rows /\ in[2].rows)
        /\ v.intent = IF in[1].rows /\ in[2].rows THEN in[2].intent
                        ELSE NoIntent
    BY DEF LaneSpec, Blank
  <2> HIDE DEF v
  <2>5. Earned(v)
    BY <2>2, <2>3 DEF Fresh, Earned, Verdicts, Probing
  <2>6. ASSUME NEW now \in seen, Deserving(now) PROVE Merit(v, now)
    <3>1. Merit(in[1], now) /\ Merit(in[2], now)
      BY <2>2, <2>6 DEF Fresh
    <3> QED
      BY <1>calm, <1>6, <2>2, <2>3, <2>6, <3>1
      DEF Merit, Probing, IntentOf, Payload
  <2> QED
    BY <2>1, <2>5, <2>6 DEF Fresh
<1>7. CASE s = "replay"
  <2> DEFINE v == Replay(in)
  <2>1. Result(s, p, in) = v
    BY <1>7 DEF Result
  <2>2. /\ Fresh(in[1]) /\ in[1].stage = "lane" /\ in[1] \in Payload
        /\ Fresh(in[2]) /\ in[2].stage = "plan" /\ in[2] \in Payload
    <3>1. Len(in) = 2
      BY <1>7, InputNames
    <3> QED
      BY <1>7, <3>1, InputNames
  <2>3. /\ v.stage = "replay"
        /\ v.ok = (in[1].ok /\ in[2].rows /\ in[1].intent = in[2].intent)
        /\ v.hash = in[1].hash
        /\ v.intent = in[2].intent
        /\ v.rows = in[2].rows
    BY DEF Replay, Blank
  <2> HIDE DEF v
  <2>5. Earned(v)
    BY <2>2, <2>3 DEF Fresh, Earned, Verdicts, Probing
  <2>6. ASSUME NEW now \in seen, Deserving(now) PROVE Merit(v, now)
    <3>1. Merit(in[1], now) /\ Merit(in[2], now)
      BY <2>2, <2>6 DEF Fresh
    <3> QED
      BY <1>calm, <1>7, <2>2, <2>3, <2>6, <3>1
      DEF Merit, Probing, IntentOf, Payload
  <2> QED
    BY <2>1, <2>5, <2>6 DEF Fresh
<1>8. CASE s = "preflight"
  <2> DEFINE v == Preflight(p, in)
  <2>1. Result(s, p, in) = v
    BY <1>8 DEF Result
  <2>2. /\ Fresh(in[1]) /\ in[1].stage = "replay" /\ in[1] \in Payload
        /\ Fresh(in[2]) /\ in[2].stage = "lane" /\ in[2] \in Payload
    <3>1. Len(in) = 2
      BY <1>8, InputNames
    <3> QED
      BY <1>8, <3>1, InputNames
  <2>3. /\ v.stage = "preflight"
        /\ v.ok = (/\ in[1].ok /\ in[2].ok /\ in[1].intent = in[2].intent
                  /\ world.probe /\ world.mode)
        /\ v.modeOnly = (/\ in[1].ok /\ in[2].ok /\ in[1].intent = in[2].intent
                        /\ world.probe /\ ~world.mode)
        /\ v.hash = in[1].hash
        /\ v.rows = in[1].rows
    BY DEF Preflight, Blank
  <2> HIDE DEF v
  <2>5. Earned(v)
    <3>1. Now.world = world
      BY DEF Now
    <3>2. v.ok => Vouched(v.hash) /\ v.hash \in Hashes
      BY <2>2, <2>3 DEF Fresh, Earned, Verdicts, Payload
    <3>3. v.ok => Probed
      BY <2>3, <3>1 DEF Probed
    <3> QED
      BY <2>3, <3>2, <3>3 DEF Earned
  <2>6. ASSUME NEW now \in seen, Deserving(now) PROVE Merit(v, now)
    <3>1. Merit(in[1], now) /\ Merit(in[2], now)
      BY <2>2, <2>6 DEF Fresh
    <3> QED
      BY <1>calm, <1>8, <2>2, <2>3, <2>6, <3>1
      DEF Merit, Probing, IntentOf, Payload
  <2> QED
    BY <2>1, <2>5, <2>6 DEF Fresh
<1>9. CASE s = "contract"
  <2> DEFINE v == OrderContract(in)
  <2>1. Result(s, p, in) = v
    BY <1>9 DEF Result
  <2>2. /\ Fresh(in[1]) /\ in[1].stage = "preflight" /\ in[1] \in Payload
    <3>1. Len(in) = 1
      BY <1>9, InputNames
    <3> QED
      BY <1>9, <3>1, InputNames
  <2>3. /\ v.stage = "contract"
        /\ v.ok = (in[1].ok /\ in[1].rows)
        /\ v.modeOnly = in[1].modeOnly
        /\ v.hash = in[1].hash
        /\ v.rows = in[1].rows
    BY <2>2 DEF OrderContract, Payload
  <2> HIDE DEF v
  <2>5. Earned(v)
    BY <2>2, <2>3 DEF Fresh, Earned, Verdicts, Probing
  <2>6. ASSUME NEW now \in seen, Deserving(now) PROVE Merit(v, now)
    <3>1. Merit(in[1], now)
      BY <2>2, <2>6 DEF Fresh
    <3> QED
      BY <1>calm, <1>9, <2>2, <2>3, <2>6, <3>1
      DEF Merit, Probing, Payload
  <2> QED
    BY <2>1, <2>5, <2>6 DEF Fresh
<1>10. CASE s = "pipeline"
  <2> DEFINE v == Pipeline(in)
  <2>1. Result(s, p, in) = v
    BY <1>10 DEF Result
  <2>2. /\ Fresh(in[8]) /\ in[8].stage = "preflight" /\ in[8] \in Payload
        /\ Fresh(in[9]) /\ in[9].stage = "contract" /\ in[9] \in Payload
    <3>1. /\ Needs(s) = Chain /\ Len(Chain) = 9
          /\ Chain[8] = "preflight" /\ Chain[9] = "contract"
      BY <1>10 DEF Needs, Chain
    <3>2. Len(in) = 9 /\ 8 \in 1..9 /\ 9 \in 1..9
      BY <3>1
    <3>3. in[8] \in Payload /\ in[9] \in Payload
      BY <1>typed, <3>2
    <3>4. /\ Fresh(in[8]) /\ in[8].stage = Chain[8]
          /\ Fresh(in[9]) /\ in[9].stage = Chain[9]
      BY <3>1, <3>2
    <3> QED
      BY <3>1, <3>3, <3>4
  <2>3. /\ v.stage = "pipeline"
        /\ v.ok = in[9].ok
        /\ v.modeOnly = (in[8].modeOnly \/ in[9].modeOnly)
    BY DEF Pipeline, Blank
  <2> HIDE DEF v
  <2>5. Earned(v)
    BY <2>2, <2>3 DEF Fresh, Earned, Verdicts, Probing
  <2>6. ASSUME NEW now \in seen, Deserving(now) PROVE Merit(v, now)
    <3>1. Merit(in[8], now) /\ Merit(in[9], now)
      BY <2>2, <2>6 DEF Fresh
    <3> QED
      BY <1>calm, <1>10, <2>2, <2>3, <2>6, <3>1
      DEF Merit, Probing, Payload
  <2> QED
    BY <2>1, <2>5, <2>6 DEF Fresh
<1>11. CASE s = "adapter"
  <2> DEFINE v == Adapter(in)
  <2>1. Result(s, p, in) = v
    BY <1>11 DEF Result
  <2>2. /\ Fresh(in[1]) /\ in[1].stage = "pipeline" /\ in[1] \in Payload
        /\ Fresh(in[2]) /\ in[2].stage = "contract" /\ in[2] \in Payload
    <3>1. Len(in) = 2
      BY <1>11, InputNames
    <3> QED
      BY <1>11, <3>1, InputNames
  <2>3. /\ v.stage = "adapter"
        /\ v.ok => in[1].ok /\ in[2].ok
        /\ v.modeOnly = (in[1].modeOnly \/ in[2].modeOnly)
        /\ v.hash = in[2].hash
    BY DEF Adapter, Blank
  <2>4. /\ in[1].ok /\ in[2].ok
        /\ ~in[1].modeOnly /\ ~in[2].modeOnly
        => v.ok
    BY <2>3 DEF Adapter, Blank
  <2> HIDE DEF v
  <2>5. Earned(v)
    BY <2>2, <2>3 DEF Fresh, Earned, Verdicts, Probing
  <2>6. ASSUME NEW now \in seen, Deserving(now) PROVE Merit(v, now)
    <3>1. Merit(in[1], now) /\ Merit(in[2], now)
      BY <2>2, <2>6 DEF Fresh
    <3> QED
      BY <1>calm, <1>11, <2>2, <2>3, <2>4, <2>6, <3>1
      DEF Merit, Probing, Payload
  <2> QED
    BY <2>1, <2>5, <2>6 DEF Fresh
<1>12. CASE s = "sandbox"
  <2> DEFINE v == Sandbox(in)
  <2>1. Result(s, p, in) = v
    BY <1>12 DEF Result
  <2>2. /\ Fresh(in[1]) /\ in[1].stage = "contract" /\ in[1] \in Payload
        /\ Fresh(in[2]) /\ in[2].stage = "adapter" /\ in[2] \in Payload
    <3>1. Len(in) = 2
      BY <1>12, InputNames
    <3> QED
      BY <1>12, <3>1, InputNames
  <2>3. /\ v.stage = "sandbox"
        /\ v.ok => in[1].ok /\ in[2].ok
        /\ v.modeOnly = (in[1].modeOnly \/ in[2].modeOnly)
        /\ v.hash = in[1].hash
        /\ v.rows = in[1].rows
    BY DEF Sandbox, Blank
  <2>4. /\ in[1].ok /\ in[2].ok /\ in[1].rows
        /\ ~in[1].modeOnly /\ ~in[2].modeOnly
        => v.ok
    BY <2>3 DEF Sandbox, Blank
  <2> HIDE DEF v
  <2>5. Earned(v)
    BY <2>2, <2>3 DEF Fresh, Earned, Verdicts, Probing
  <2>6. ASSUME NEW now \in seen, Deserving(now) PROVE Merit(v, now)
    <3>1. Merit(in[1], now) /\ Merit(in[2], now)
      BY <2>2, <2>6 DEF Fresh
    <3> QED
      BY <1>calm, <1>12, <2>2, <2>3, <2>4, <2>6, <3>1
      DEF Merit, Probing, Payload
  <2> QED
    BY <2>1, <2>5, <2>6 DEF Fresh
<1>13. CASE s = "validator"
  <2> DEFINE v == Validator(in)
  <2>1. Result(s, p, in) = v
    BY <1>13 DEF Result
  <2>2. /\ Fresh(in[1]) /\ in[1].stage = "contract" /\ in[1] \in Payload
        /\ Fresh(in[2]) /\ in[2].stage = "sandbox" /\ in[2] \in Payload
    <3>1. Len(in) = 2
      BY <1>13, InputNames
    <3> QED
      BY <1>13, <3>1, InputNames
  <2>3. /\ v.stage = "validator"
        /\ v.ok = (in[1].ok /\ in[2].rows)
        /\ v.modeOnly = in[1].modeOnly
        /\ v.hash = in[1].hash
        /\ v.rows = in[2].rows
    BY DEF Validator, Blank
  <2> HIDE DEF v
  <2>5. Earned(v)
    BY <2>2, <2>3 DEF Fresh, Earned, Verdicts, Probing
  <2>6. ASSUME NEW now \in seen, Deserving(now) PROVE Merit(v, now)
    <3>1. Merit(in[1], now) /\ Merit(in[2], now)
      BY <2>2, <2>6 DEF Fresh
    <3> QED
      BY <1>calm, <1>13, <2>2, <2>3, <2>6, <3>1
      DEF Merit, Probing, Payload
  <2> QED
    BY <2>1, <2>5, <2>6 DEF Fresh
<1>14. CASE s = "orchestrator"
  <2> DEFINE v == Orchestrator(in)
  <2>1. Result(s, p, in) = v
    BY <1>14 DEF Result
  <2>2. \A i \in 10..13 : /\ Fresh(in[i]) /\ in[i].stage \in Probing
                           /\ in[i] \in Payload
    <3>1. /\ Needs(s) = Everything /\ Len(Everything) = 13
          /\ Everything[10] = "pipeline" /\ Everything[11] = "adapter"
          /\ Everything[12] = "sandbox" /\ Everything[13] = "validator"
      BY <1>14 DEF Needs, Everything
    <3>2. \A i \in 10..13 : i \in 1..13 /\ Everything[i] \in Probing
      <4>1. \A i \in 10..13 : i = 10 \/ i = 11 \/ i = 12 \/ i = 13
        OBVIOUS
      <4> QED
        BY <3>1, <4>1 DEF Probing
    <3>3. Len(in) = 13
      BY <3>1
    <3>4. \A i \in 10..13 : in[i] \in Payload
      BY <1>typed, <3>2, <3>3
    <3>5. \A i \in 10..13 : Fresh(in[i]) /\ in[i].stage = Everything[i]
      BY <3>1, <3>2, <3>3
    <3> QED
      BY <3>2, <3>4, <3>5
  <2>3. /\ v.stage = "orchestrator"
        /\ v.ok = (\A i \in 10..13 : in[i].ok)
        /\ v.modeOnly = FALSE
    BY DEF Orchestrator, Blank
  <2> HIDE DEF v
  <2>5. Earned(v)
    <3>1. v.ok => in[13].ok
      <4>1. 13 \in 10..13
        OBVIOUS
      <4> QED
        BY <2>3, <4>1
    <3>2. Fresh(in[13]) /\ in[13].stage \in Probing
      BY <2>2
    <3>3. v.stage \notin Verdicts
      BY <2>3 DEF Verdicts
    <3> QED
      BY <2>3, <3>1, <3>2, <3>3 DEF Fresh, Earned
  <2>6. ASSUME NEW now \in seen, Deserving(now) PROVE Merit(v, now)
    <3>1. \A i \in 10..13 : Merit(in[i], now)
      BY <2>2, <2>6 DEF Fresh
    <3>2. now.world.probe /\ now.world.mode => \A i \in 10..13 : in[i].ok
      BY <2>2, <3>1 DEF Merit
    <3> QED
      BY <2>3, <3>2 DEF Merit, Probing
  <2> QED
    BY <2>1, <2>5, <2>6 DEF Fresh
<1> QED
  BY <1>1, <1>2, <1>3, <1>4, <1>5, <1>6, <1>7, <1>8, <1>9, <1>10, <1>11,
     <1>12, <1>13, <1>14 DEF Saved
-----------------------------------------------------------------------------
(* What the steps of a command do to the frames.                           *)

LEMMA OneReplaced ==
    ASSUME NEW st \in Seq(Frames), NEW i \in 1..Len(st), NEW g \in Frames
    PROVE  /\ [st EXCEPT ![i] = g] \in Seq(Frames)
           /\ Len([st EXCEPT ![i] = g]) = Len(st)
  OBVIOUS

LEMMA TopTyped ==
    ASSUME PInv
    PROVE  /\ stack \in Seq(Frames) /\ Len(stack) \in Nat \ {0}
           /\ Top = stack[Len(stack)] /\ FrameOK(Top) /\ Top \in Frames
           /\ Top.calls \in Seq(Requests) /\ Top.got \in Seq(Payload)
<1>1. stack \in Seq(Frames) /\ Len(stack) \in Nat \ {0} /\ FrameOK(Top)
  BY DEF PInv, StackOK, StackFor, Top
<1>2. Top \in Frames
  BY <1>1 DEF FrameOK
<1> QED
  BY <1>1, <1>2 DEF Frames, Top

LEMMA Finished ==
    ASSUME PInv, Calling, NEW v \in Payload, Finish(v)
    PROVE  /\ stack' \in Seq(Frames) /\ Len(stack') = Len(stack)
           /\ \A i \in 1..Len(stack) :
                /\ stack'[i].call = stack[i].call
                /\ stack'[i].calls = stack[i].calls
                /\ i # Len(stack) => stack'[i] = stack[i]
                /\ i = Len(stack) => stack'[i].got = Append(stack[i].got, v)
<1> DEFINE n == Len(stack)
           f == stack[n]
           got == Append(f.got, v)
           g == [f EXCEPT !.got = got]
<1>1. /\ stack \in Seq(Frames) /\ n \in Nat \ {0} /\ f \in Frames
      /\ f.got \in Seq(Payload)
  BY TopTyped
<1>2. got \in Seq(Payload)
  BY <1>1
<1>3. stack' = [stack EXCEPT ![n] = g]
  BY <1>1 DEF Finish
<1> HIDE DEF got
<1>4. g \in Frames /\ g.call = f.call /\ g.calls = f.calls /\ g.got = got
  BY <1>1, <1>2 DEF Frames
<1> HIDE DEF g
<1>5. /\ stack' \in Seq(Frames) /\ Len(stack') = n
      /\ \A i \in 1..n : stack'[i] = IF i = n THEN g ELSE stack[i]
  BY <1>1, <1>3, <1>4
<1> QED
  BY <1>4, <1>5 DEF got

LEMMA Became ==
    ASSUME PInv, Calling, NEW c \in Requests, Become(c)
    PROVE  /\ stack' \in Seq(Frames) /\ Len(stack') = Len(stack)
           /\ \A i \in 1..Len(stack) :
                /\ stack'[i].call = stack[i].call
                /\ stack'[i].got = stack[i].got
                /\ i # Len(stack) => stack'[i] = stack[i]
                /\ i = Len(stack) =>
                     stack'[i].calls =
                       [stack[i].calls EXCEPT ![Len(stack[i].got) + 1] = c]
<1> DEFINE n == Len(stack)
           f == stack[n]
           calls == [f.calls EXCEPT ![Len(f.got) + 1] = c]
           g == [f EXCEPT !.calls = calls]
<1>1. /\ stack \in Seq(Frames) /\ n \in Nat \ {0} /\ f \in Frames
      /\ f.calls \in Seq(Requests)
  BY TopTyped
<1>2. calls \in Seq(Requests)
  <2>1. Len(f.got) + 1 \in 1..Len(f.calls)
    BY TopTyped, CalleeTyped
  <2> HIDE DEF f
  <2> QED
    BY <1>1, <2>1
<1>3. stack' = [stack EXCEPT ![n] = g]
  BY <1>1 DEF Become, Top
<1> HIDE DEF calls
<1>4. g \in Frames /\ g.call = f.call /\ g.calls = calls /\ g.got = f.got
  BY <1>1, <1>2 DEF Frames
<1> HIDE DEF g
<1>5. /\ stack' \in Seq(Frames) /\ Len(stack') = n
      /\ \A i \in 1..n : stack'[i] = IF i = n THEN g ELSE stack[i]
  BY <1>1, <1>3, <1>4
<1> QED
  BY <1>4, <1>5 DEF calls

\* The answer of the innermost frame goes to its caller.
LEMMA Returned ==
    ASSUME PInv, Len(stack) > 1, NEW v \in Payload,
           stack' = [SubSeq(stack, 1, Len(stack) - 1) EXCEPT
                       ![Len(SubSeq(stack, 1, Len(stack) - 1))].got =
                          Append(@, v)]
    PROVE  /\ stack' \in Seq(Frames) /\ Len(stack') = Len(stack) - 1
           /\ \A i \in 1..(Len(stack) - 1) :
                /\ stack'[i].call = stack[i].call
                /\ stack'[i].calls = stack[i].calls
                /\ i # Len(stack) - 1 => stack'[i] = stack[i]
                /\ i = Len(stack) - 1 =>
                     stack'[i].got = Append(stack[i].got, v)
<1> DEFINE m == Len(stack) - 1
           outer == SubSeq(stack, 1, m)
           f == stack[m]
           got == Append(f.got, v)
           g == [f EXCEPT !.got = got]
<1>1. stack \in Seq(Frames) /\ m \in Nat \ {0} /\ m \in 1..Len(stack)
  BY TopTyped
<1>2. /\ outer \in Seq(Frames) /\ Len(outer) = m
      /\ \A i \in 1..m : outer[i] = stack[i]
  BY <1>1
<1>3. f \in Frames /\ f.got \in Seq(Payload)
  <2>1. f \in Frames
    BY <1>1
  <2> QED
    BY <2>1 DEF Frames
<1>4. got \in Seq(Payload)
  BY <1>3
<1>5. stack' = [outer EXCEPT ![Len(outer)].got = Append(@, v)]
  OBVIOUS
<1> HIDE DEF outer
<1>6. stack' = [outer EXCEPT ![m] = g]
  <2>1. outer[m] = f /\ m \in 1..Len(outer)
    BY <1>1, <1>2
  <2>2. stack' = [outer EXCEPT ![m] = [outer[m] EXCEPT
                                         !.got = Append(outer[m].got, v)]]
    BY <1>2, <1>5
  <2> QED
    BY <2>1, <2>2
<1> HIDE DEF got
<1>7. g \in Frames /\ g.call = f.call /\ g.calls = f.calls /\ g.got = got
  BY <1>3, <1>4 DEF Frames
<1> HIDE DEF g, m
<1>8. /\ stack' \in Seq(Frames) /\ Len(stack') = m
      /\ \A i \in 1..m : stack'[i] = IF i = m THEN g ELSE stack[i]
  <2>1. outer \in Seq(Frames) /\ Len(outer) = m /\ m \in Nat \ {0}
    BY <1>1, <1>2
  <2>2. stack' \in Seq(Frames) /\ Len(stack') = m
    <3>1. m \in 1..Len(outer) /\ g \in Frames
      BY <1>7, <2>1
    <3> DEFINE new == [outer EXCEPT ![m] = g]
    <3>2. new \in Seq(Frames) /\ Len(new) = Len(outer)
      BY <2>1, <3>1, OneReplaced
    <3>3. stack' = new
      BY <1>6
    <3> HIDE DEF new
    <3> QED
      BY <2>1, <3>2, <3>3
  <2>3. \A i \in 1..m : stack'[i] = IF i = m THEN g ELSE outer[i]
    BY <1>6, <2>1
  <2> QED
    BY <1>2, <2>2, <2>3
<1> QED
  BY <1>7, <1>8 DEF got, m

LEMMA Pushed ==
    ASSUME PInv, NEW g, Push(g)
    PROVE  /\ Len(stack') = Len(stack) + 1
           /\ stack'[Len(stack) + 1] = g
           /\ \A i \in 1..Len(stack) : stack'[i] = stack[i]
  BY TopTyped DEF Push

-----------------------------------------------------------------------------
(* The command stays the same while its calls are answered.                *)

LEMMA CommandStays ==
    ASSUME Commanded, run' = run, stack'[1].calls = stack[1].calls
    PROVE  Commanded'
  BY DEF Commanded

\* A step of a command looks at the world and leaves it alone.
LEMMA SeenStays ==
    ASSUME SeenOK, ~Idle, UNCHANGED <<world, files, bound, seen>>
    PROVE  SeenOK' /\ Now \in seen /\ Now' \in seen' /\ seen # {}
  BY DEF SeenOK, Now

LEMMA FreshFrameStays ==
    ASSUME run' = run, seen \subseteq seen', Now \in seen, Now' \in seen',
           \/ saved'["evidence"] = saved["evidence"]
           \/ \A now \in seen : Deserving(now) =>
                saved'["evidence"].ok /\ saved'["evidence"].path = run.path,
           NEW f, FreshFrame(f)
    PROVE  FreshFrame(f)'
<1>1. \A c : Faithful(c) => Faithful(c)'
  BY FaithfulStays
<1>2. \A now : Deserving(now)' => Deserving(now) /\ now \in seen
  BY DEF Deserving
<1> QED
  BY <1>1, <1>2 DEF FreshFrame, FreshCall

LEMMA AnsweredStays ==
    ASSUME run' = run, seen \subseteq seen', seen' = seen \/ seen # {},
           NEW f, Answered(f)
    PROVE  Answered(f)'
<1>1. \A v : Fresh(v) => Fresh(v)'
  BY FreshStays
<1> QED
  BY <1>1 DEF Answered

\* A step of a refreshing command.
LEMMA FreshRunStep ==
    ASSUME run' = run, seen' = seen, Now \in seen, Now' \in seen',
           \/ saved'["evidence"] = saved["evidence"]
           \/ \A now \in seen : Deserving(now) =>
                saved'["evidence"].ok /\ saved'["evidence"].path = run.path,
           \A i \in 1..Len(stack') : /\ Answered(stack'[i])
                                     /\ FreshFrame(stack'[i]),
           cache'[TRUE] # Absent => Fresh(cache'[TRUE])
    PROVE  FreshRun'
<1>1. \A f : Answered(f) => Answered(f)'
  BY AnsweredStays
<1>2. \A f : FreshFrame(f) => FreshFrame(f)'
  BY FreshFrameStays
<1>3. \A v : Fresh(v) => Fresh(v)'
  BY FreshStays
<1>4. Absent' = Absent
  BY DEF Absent, Blank
<1> QED
  BY <1>1, <1>2, <1>3, <1>4 DEF FreshRun

\* The innermost frame is one of those the invariant speaks of.
LEMMA TopFresh ==
    ASSUME PInv, FreshRun, ~Idle
    PROVE  Answered(Top) /\ FreshFrame(Top)
  BY TopTyped DEF FreshRun

LEMMA CalleeFresh ==
    ASSUME PInv, FreshRun, Calling
    PROVE  FreshCall(Callee) /\ ~Idle
<1>1. ~Idle
  BY DEF Idle, Calling
<1>2. Len(Top.got) < Len(Top.calls) /\ Len(Top.got) \in Nat
  BY CalleeTyped, TopTyped
<1>3. Len(Top.got) + 1 \in 1..Len(Top.calls)
  BY <1>2, TopTyped
<1> QED
  BY <1>1, <1>3, TopFresh DEF FreshFrame, Callee
-----------------------------------------------------------------------------
(* The steps.                                                              *)

LEMMA RInitEstablishes == ASSUME PInit PROVE RInv
<1>1. PInv
  BY InitEstablishes
<1>2. stack = <<Shell(<<>>)>>
  BY DEF PInit
<1>3. Len(stack) = 1 /\ Top.got = <<>> /\ Top.calls = <<>>
  BY <1>2 DEF Top, Shell, Frame
<1>4. Idle
  BY <1>3 DEF Idle, Full
<1>5. SeenOK
  BY <1>4, FS_EmptySet DEF PInit, SeenOK
<1>6. run.stage = "absent" /\ run.refresh = FALSE
  BY DEF PInit
<1>7. "absent" \notin Saved
  BY DEF Saved
<1> QED
  BY <1>1, <1>5, <1>6, <1>7 DEF RInv, Commanded

\* The world and the approvals move on while a command is under way.
LEMMA RWorldMoves ==
    ASSUME RInv, ChangeWorld \/ FileApproval \/ WithdrawApproval
    PROVE  RInv'
<1>1. UNCHANGED <<saved, cache, stack, run>>
  BY DEF ChangeWorld, FileApproval, WithdrawApproval
<1>2. PInv /\ PInv'
  BY WorldMoves DEF RInv
<1>3. seen' = IF Idle THEN seen ELSE seen \cup {Now'}
  BY DEF ChangeWorld, FileApproval, WithdrawApproval, Witness, Now
<1>4. Idle' = Idle
  BY <1>1 DEF Idle, Top
<1>5. SeenOK /\ Commanded
  BY DEF RInv
<1>6. SeenOK'
  BY <1>3, <1>4, <1>5, FS_AddElement DEF SeenOK
<1>7. Commanded'
  BY <1>1, <1>5 DEF Commanded
<1>8. ASSUME run.refresh PROVE FreshRun'
  <2>1. FreshRun
    BY <1>8 DEF RInv
  <2>2. seen \subseteq seen' /\ (seen' = seen \/ seen # {})
    BY <1>3, <1>5 DEF SeenOK
  <2>3. \A i \in 1..Len(stack') : Answered(stack[i])'
    <3>1. \A f : Answered(f) => Answered(f)'
      BY <1>1, <2>2, AnsweredStays
    <3> QED
      BY <1>1, <2>1, <3>1 DEF FreshRun
  <2>4. ASSUME ~Idle'
        PROVE  /\ \A i \in 1..Len(stack') : FreshFrame(stack[i])'
               /\ cache'[TRUE] # Absent => Fresh(cache[TRUE])'
    <3>1. Now \in seen /\ Now' \in seen' /\ ~Idle
      BY <1>4, <1>5, <1>6, <2>4 DEF SeenOK
    <3>2. \A f : FreshFrame(f) => FreshFrame(f)'
      BY <1>1, <2>2, <3>1, FreshFrameStays
    <3>3. \A v : Fresh(v) => Fresh(v)'
      BY <1>1, <2>2, FreshStays
    <3>4. cache[TRUE] # Absent => Fresh(cache[TRUE])
      BY <2>1, <3>1 DEF FreshRun
    <3>5. cache[TRUE] # Absent => Fresh(cache[TRUE])'
      BY <1>1, <3>3, <3>4
    <3> QED
      BY <1>1, <2>1, <3>1, <3>2, <3>5 DEF FreshRun
  <2>5. Absent' = Absent
    BY DEF Absent, Blank
  <2> QED
    BY <2>3, <2>4, <2>5 DEF FreshRun
<1> QED
  BY <1>1, <1>2, <1>6, <1>7, <1>8 DEF RInv

LEMMA RStartRunKeeps == ASSUME RInv, StartRun PROVE RInv'
<1>1. PInv /\ PInv'
  BY StartRunKeeps DEF RInv
<1>2. PICK tool \in Tools, p \in AnyPath :
        /\ stack' = <<Shell(<<Build(tool[1], TRUE, tool[2], p)>>)>>
        /\ run' = [stage |-> tool[1], refresh |-> tool[2],
                   path |-> IF p # NoPath \/ tool[1] = "evidence" THEN p
                            ELSE ApprovalForRefresh(tool[2])]
  BY DEF StartRun, AnyPath
<1>3. tool[1] \in Saved /\ tool[2] \in BOOLEAN
  BY ToolsAreCommands
<1>4. /\ cache' = [r \in BOOLEAN |-> Absent] /\ seen' = {Now}
      /\ UNCHANGED <<world, files, saved, bound>>
  BY DEF StartRun
<1>5. SeenOK'
  BY <1>4, FS_Singleton DEF SeenOK, Now
<1> DEFINE c == Build(tool[1], TRUE, tool[2], p)
<1>6. /\ c.op = "build" /\ c.stage = tool[1] /\ c.refresh = tool[2]
      /\ c.path = p
  BY DEF Build, Call
<1> HIDE DEF c
<1>7. stack' = <<Shell(<<c>>)>>
  BY <1>2 DEF c
<1>8. /\ Len(stack') = 1 /\ stack'[1].calls = <<c>> /\ stack'[1].got = <<>>
      /\ stack'[1].call.op = "shell"
  BY <1>7 DEF Shell, Frame, Call
<1>9. /\ run'.stage = tool[1] /\ run'.refresh = tool[2]
      /\ run'.path = IF p # NoPath \/ tool[1] = "evidence" THEN p
                     ELSE ApprovalForRefresh(tool[2])
  BY <1>2
<1>10. Len(<<c>>) = 1 /\ <<c>>[1] = c /\ Len(<<>>) = 0
  OBVIOUS
<1>11. Commanded'
  BY <1>3, <1>6, <1>8, <1>9, <1>10 DEF Commanded
<1>12. ASSUME run'.refresh PROVE FreshRun'
  <2>1. tool[2] = TRUE
    BY <1>3, <1>9, <1>12
  <2>2. ApprovalForRefresh(TRUE)' = ApprovalForRefresh(TRUE)
    BY <1>4 DEF ApprovalForRefresh, DefaultApproval
  <2>3. Leads(c)'
    BY <1>6, <1>9, <2>1, <2>2 DEF Leads
  <2>4. FreshCall(c)'
    BY <1>6, <2>1, <2>3 DEF FreshCall, Faithful
  <2>5. FreshFrame(stack[1])'
    <3>1. \A k \in 1..Len(stack'[1].calls) : stack'[1].calls[k] = c
      BY <1>8, <1>10
    <3>2. \A d : d = c => FreshCall(d)'
      BY <2>4
    <3>3. \A k \in 1..Len(stack'[1].calls) : FreshCall(stack[1].calls[k])'
      BY <3>1, <3>2
    <3> QED
      BY <1>8, <3>3 DEF FreshFrame
  <2>6. Answered(stack[1])'
    BY <1>8, <1>10 DEF Answered
  <2>7. cache'[TRUE] = Absent'
    BY <1>4 DEF Absent, Blank
  <2>8. \A i \in 1..Len(stack') : i = 1
    BY <1>8
  <2> QED
    BY <2>5, <2>6, <2>7, <2>8 DEF FreshRun
<1> QED
  BY <1>1, <1>5, <1>11, <1>12 DEF RInv

\* The approval a refreshing builder goes by.
LEMMA Resolved ==
    ASSUME PInv, SeenOK, ~Idle, NEW c \in Requests, Faithful(c), c.refresh,
           NEW p, p = IF c.stage \in Resolving /\ c.path = NoPath
                      THEN ApprovalForRefresh(c.refresh) ELSE c.path
    PROVE  \A now \in seen : Deserving(now) =>
             \/ c.stage \in Plain \/ p = run.path
             \/ /\ p = NoPath /\ c.stage \notin Resolving \cup {"evidence"}
                /\ ApprovalForRefresh(TRUE) = run.path
<1> SUFFICES ASSUME NEW now \in seen, Deserving(now)
             PROVE  \/ c.stage \in Plain \/ p = run.path
                    \/ /\ p = NoPath
                       /\ c.stage \notin Resolving \cup {"evidence"}
                       /\ ApprovalForRefresh(TRUE) = run.path
  OBVIOUS
<1>1. Leads(c)
  BY DEF Faithful
<1>2. Now = now
  BY DEF SeenOK, Deserving
<1>3. run.path \in files /\ files \subseteq Paths
  BY <1>2 DEF Deserving, Now, PInv, WorldOK
<1>4. run.path # NoPath
  BY <1>3 DEF Paths, NoPath
<1>5. c.refresh = TRUE
  BY DEF Requests
<1> QED
  BY <1>1, <1>4, <1>5 DEF Leads

\* A refreshing command gets an answer at once.
LEMMA FreshFinished ==
    ASSUME PInv, FreshRun, Calling, NEW v \in Payload, Fresh(v), Finish(v)
    PROVE  /\ \A i \in 1..Len(stack') : /\ Answered(stack'[i])
                                        /\ FreshFrame(stack'[i])
           /\ stack'[1].calls = stack[1].calls
<1>1. ~Idle
  BY CalleeFresh
<1>2. Len(stack) \in Nat \ {0} /\ stack \in Seq(Frames)
  BY TopTyped
<1>3. ASSUME NEW i \in 1..Len(stack')
      PROVE  Answered(stack'[i]) /\ FreshFrame(stack'[i])
  <2>1. i \in 1..Len(stack)
    BY <1>3, Finished
  <2>2. FreshFrame(stack[i]) /\ Answered(stack[i])
    BY <1>1, <2>1 DEF FreshRun
  <2>3. FreshFrame(stack'[i])
    BY <2>1, <2>2, Finished DEF FreshFrame
  <2>4. Answered(stack'[i])
    <3>1. CASE i # Len(stack)
      BY <2>1, <2>2, <3>1, Finished
    <3>2. CASE i = Len(stack)
      <4>1. stack'[i].got = Append(Top.got, v) /\ Top.got \in Seq(Payload)
        BY <2>1, <3>2, Finished, TopTyped
      <4>2. Answered(Top)
        BY <2>2, <3>2, TopTyped
      <4> QED
        BY <4>1, <4>2 DEF Answered
    <3> QED
      BY <3>1, <3>2
  <2> QED
    BY <2>3, <2>4
<1>4. stack'[1].calls = stack[1].calls
  BY <1>2, Finished
<1> QED
  BY <1>3, <1>4

\* It becomes another fresh call.
LEMMA FreshBecame ==
    ASSUME PInv, FreshRun, Calling, NEW c \in Requests, FreshCall(c),
           Become(c)
    PROVE  \A i \in 1..Len(stack') : /\ Answered(stack'[i])
                                     /\ FreshFrame(stack'[i])
<1>1. ~Idle
  BY CalleeFresh
<1> TAKE i \in 1..Len(stack')
<1>2. i \in 1..Len(stack)
  BY Became
<1>3. FreshFrame(stack[i]) /\ Answered(stack[i])
  BY <1>1, <1>2 DEF FreshRun
<1>4. Answered(stack'[i])
  BY <1>2, <1>3, Became DEF Answered
<1>5. FreshFrame(stack'[i])
  <2>1. CASE i # Len(stack)
    BY <1>2, <1>3, <2>1, Became
  <2>2. CASE i = Len(stack)
    <3>1. /\ stack'[i].calls = [Top.calls EXCEPT ![Len(Top.got) + 1] = c]
          /\ Top.calls \in Seq(Requests)
      BY <1>2, <2>2, Became, TopTyped
    <3>2. FreshFrame(Top) /\ stack'[i].call = Top.call
      BY <1>2, <1>3, <2>2, Became, TopTyped
    <3>3. /\ Len(stack'[i].calls) = Len(Top.calls)
          /\ \A k \in 1..Len(Top.calls) :
               stack'[i].calls[k] = IF k = Len(Top.got) + 1 THEN c
                                    ELSE Top.calls[k]
      BY <3>1
    <3> QED
      BY <3>2, <3>3 DEF FreshFrame
  <2> QED
    BY <2>1, <2>2
<1> QED
  BY <1>4, <1>5

\* A fresh call that is made gets a fresh frame.
LEMMA FreshPushed ==
    ASSUME PInv, FreshRun, ~Idle, NEW c \in Requests, NEW calls,
           c.op = "build", c.refresh, Faithful(c),
           c.stage \in Resolving =>
             \A now \in seen : Deserving(now) => c.path = run.path,
           \A k \in 1..Len(calls) : FreshCall(calls[k]),
           Push(Frame(c, calls))
    PROVE  \A i \in 1..Len(stack') : /\ Answered(stack'[i])
                                     /\ FreshFrame(stack'[i])
<1> DEFINE g == Frame(c, calls)
<1>1. g.call = c /\ g.calls = calls /\ g.got = <<>> /\ Len(<<>>) = 0
  BY DEF Frame
<1>2. Push(g)
  OBVIOUS
<1> HIDE DEF g
<1>3. FreshFrame(g)
  BY <1>1 DEF FreshFrame
<1>4. Answered(g)
  BY <1>1 DEF Answered
<1>5. /\ Len(stack') = Len(stack) + 1 /\ stack'[Len(stack) + 1] = g
      /\ \A i \in 1..Len(stack) : stack'[i] = stack[i]
  BY <1>2, Pushed
<1>6. Len(stack) \in Nat
  BY TopTyped
<1> TAKE i \in 1..Len(stack')
<1>7. i \in 1..Len(stack) \/ i = Len(stack) + 1
  BY <1>5, <1>6
<1>8. i \in 1..Len(stack) => Answered(stack[i]) /\ FreshFrame(stack[i])
  BY DEF FreshRun
<1> QED
  BY <1>3, <1>4, <1>5, <1>7, <1>8

\* A step that changes no more than the calls under way.
LEMMA RStackMoves ==
    ASSUME RInv, PInv', ~Idle, UNCHANGED <<world, files, bound, saved, cache,
                                           run, seen>>,
           Len(stack'[1].calls) = Len(stack[1].calls),
           Len(stack[1].calls) = 1 =>
             stack'[1].calls[1].stage = stack[1].calls[1].stage,
           run.refresh =>
             \A i \in 1..Len(stack') : /\ Answered(stack'[i])
                                       /\ FreshFrame(stack'[i])
    PROVE  RInv'
<1>1. SeenOK' /\ Now \in seen /\ Now' \in seen'
  BY SeenStays DEF RInv
<1>2. Commanded'
  BY DEF RInv, Commanded
<1>3. ASSUME run.refresh PROVE FreshRun'
  <2>1. FreshRun
    BY <1>3 DEF RInv
  <2>2. cache'[TRUE] # Absent => Fresh(cache'[TRUE])
    BY <2>1 DEF FreshRun
  <2> QED
    BY <1>1, <1>3, <2>2, FreshRunStep
<1> QED
  BY <1>1, <1>2, <1>3 DEF RInv

LEMMA RBuildInputsKeeps == ASSUME RInv, BuildInputs PROVE RInv'
<1> DEFINE c == Callee
           p == IF c.stage \in Resolving /\ c.path = NoPath
                THEN ApprovalForRefresh(c.refresh) ELSE c.path
           frame == [c EXCEPT !.path = p]
           calls == Inputs(c.stage, c.write, c.refresh, p)
<1>1. PInv /\ PInv' /\ SeenOK
  BY BuildInputsKeeps DEF RInv
<1>2. /\ Calling /\ c.op = "build"
      /\ UNCHANGED <<world, files, bound, saved, cache, run, seen>>
  BY DEF BuildInputs
<1>3. c \in Requests /\ ~Idle
  BY <1>1, <1>2, CalleeTyped DEF Idle, Calling
<1>4. \/ /\ c.stage = "packet" /\ cache[c.refresh] # Absent
         /\ Finish(cache[c.refresh])
      \/ Push(Frame(frame, calls))
  BY DEF BuildInputs
<1>5. p \in AnyPath
  BY <1>1, <1>3, ApprovalTyped DEF Requests
<1>6. PICK q : q = p
  OBVIOUS
<1>7. PICK d : d = c
  OBVIOUS
<1>8. stack'[1].calls = stack[1].calls
  <2>1. CASE /\ c.stage = "packet" /\ cache[c.refresh] # Absent
             /\ Finish(cache[c.refresh])
    <3>1. cache[c.refresh] \in Payload
      BY <1>1, <1>3 DEF PInv, SavedOK, Requests
    <3>2. Len(stack) \in Nat \ {0}
      BY <1>1, TopTyped
    <3> QED
      BY <1>1, <1>2, <2>1, <3>1, <3>2, Finished
  <2>2. CASE Push(Frame(frame, calls))
    <3>1. Len(stack) \in Nat \ {0}
      BY <1>1, TopTyped
    <3>2. PICK g : g = Frame(frame, calls)
      OBVIOUS
    <3>3. Push(g)
      BY <2>2, <3>2
    <3> QED
      BY <1>1, <3>1, <3>3, Pushed
  <2> QED
    BY <1>4, <2>1, <2>2
<1>9. ASSUME run.refresh
      PROVE  \A i \in 1..Len(stack') : /\ Answered(stack'[i])
                                       /\ FreshFrame(stack'[i])
  <2>1. FreshRun
    BY <1>9 DEF RInv
  <2>2. FreshCall(c)
    BY <1>1, <1>2, <2>1, CalleeFresh
  <2>3. c.refresh = TRUE /\ Faithful(c)
    BY <1>3, <2>2 DEF FreshCall, Requests
  <2>4. CASE /\ c.stage = "packet" /\ cache[c.refresh] # Absent
             /\ Finish(cache[c.refresh])
    <3>1. Fresh(cache[TRUE]) /\ Finish(cache[TRUE])
      BY <1>3, <2>1, <2>3, <2>4 DEF FreshRun
    <3>2. cache[TRUE] \in Payload
      BY <1>1 DEF PInv, SavedOK
    <3> QED
      BY <1>1, <1>2, <2>1, <3>1, <3>2, FreshFinished
  <2>5. CASE Push(Frame(frame, calls))
    <3>1. \A now \in seen : Deserving(now) =>
            \/ d.stage \in Plain \/ q = run.path
            \/ /\ q = NoPath /\ d.stage \notin Resolving \cup {"evidence"}
               /\ ApprovalForRefresh(TRUE) = run.path
      <4>1. /\ d \in Requests /\ Faithful(d) /\ d.refresh
            /\ q = IF d.stage \in Resolving /\ d.path = NoPath
                   THEN ApprovalForRefresh(d.refresh) ELSE d.path
        BY <1>3, <1>6, <1>7, <2>3
      <4> QED
        BY <1>1, <1>3, <4>1, Resolved
    <3> HIDE DEF c, p
    <3>2. /\ frame \in Requests /\ frame.stage = d.stage /\ frame.path = q
          /\ frame.op = "build" /\ frame.refresh = TRUE
      BY <1>2, <1>3, <1>5, <1>6, <1>7, <2>3 DEF Requests
    <3>3. calls = Inputs(d.stage, d.write, TRUE, q)
      BY <1>6, <1>7, <2>3
    <3>4. d.stage \in Saved /\ d.write \in BOOLEAN /\ q \in AnyPath
      BY <1>3, <1>5, <1>6, <1>7 DEF Requests
    <3>5. \A k \in 1..Len(calls) : FreshCall(calls[k])
      BY <3>1, <3>3, <3>4, InputsFresh
    <3> HIDE DEF frame, calls
    <3>6. Faithful(frame)
      BY <3>1, <3>2 DEF Faithful, Leads
    <3>7. frame.stage \in Resolving =>
            \A now \in seen : Deserving(now) => frame.path = run.path
      BY <3>1, <3>2 DEF Resolving, Plain
    <3> QED
      BY <1>1, <1>3, <2>1, <2>5, <3>2, <3>5, <3>6, <3>7, FreshPushed
  <2> QED
    BY <1>4, <2>4, <2>5
<1> QED
  BY <1>1, <1>2, <1>3, <1>8, <1>9, RStackMoves

\* The command's own call is still for its stage.
LEMMA ShellBecame ==
    ASSUME PInv, Calling, NEW c \in Requests, c.stage = Callee.stage,
           Become(c)
    PROVE  /\ Len(stack'[1].calls) = Len(stack[1].calls)
           /\ Len(stack[1].calls) = 1 =>
                stack'[1].calls[1].stage = stack[1].calls[1].stage
<1>1. Len(stack) \in Nat \ {0} /\ 1 \in 1..Len(stack)
  BY TopTyped
<1>2. CASE Len(stack) # 1
  BY <1>1, <1>2, Became
<1>3. CASE Len(stack) = 1
  <2>1. Top = stack[1] /\ Top.calls \in Seq(Requests)
    BY <1>3, TopTyped
  <2>2. stack'[1].calls = [Top.calls EXCEPT ![Len(Top.got) + 1] = c]
    BY <1>1, <1>3, <2>1, Became
  <2>3. Len(Top.got) + 1 \in 1..Len(Top.calls)
    BY CalleeTyped, TopTyped
  <2>4. Callee = Top.calls[Len(Top.got) + 1]
    BY DEF Callee
  <2> HIDE DEF Top
  <2>5. Len(stack'[1].calls) = Len(Top.calls)
    BY <2>1, <2>2
  <2>6. Len(Top.calls) = 1 => Len(Top.got) + 1 = 1
    BY <2>1, <2>3
  <2>7. Len(Top.calls) = 1 => stack'[1].calls[1] = c /\ Callee = Top.calls[1]
    BY <2>1, <2>2, <2>3, <2>4, <2>6
  <2> QED
    BY <2>1, <2>5, <2>7
<1> QED
  BY <1>2, <1>3

LEMMA RSavedOrBuiltKeeps == ASSUME RInv, SavedOrBuilt PROVE RInv'
<1> DEFINE c == Callee
           b == [c EXCEPT !.op = "build"]
           new == IF /\ ~c.refresh /\ c.path = NoPath
                     /\ saved[c.stage] # Absent
                  THEN Read(c.stage) ELSE b
<1>1. PInv /\ PInv' /\ SeenOK
  BY SavedOrBuiltKeeps DEF RInv
<1>2. /\ Calling /\ Become(new)
      /\ UNCHANGED <<world, files, bound, saved, cache, run, seen>>
  BY DEF SavedOrBuilt
<1>3. c \in Requests /\ ~Idle
  BY <1>1, <1>2, CalleeTyped DEF Idle, Calling
<1>4. /\ Read(c.stage) \in Requests /\ Read(c.stage).stage = c.stage
      /\ b \in Requests /\ b.stage = c.stage /\ b.op = "build"
      /\ b.refresh = c.refresh /\ b.path = c.path
  BY <1>3 DEF Read, Call, Requests, AnyPath
<1>5. new \in Requests /\ new.stage = c.stage
  BY <1>4
<1>6. /\ Len(stack'[1].calls) = Len(stack[1].calls)
      /\ Len(stack[1].calls) = 1 =>
           stack'[1].calls[1].stage = stack[1].calls[1].stage
  BY <1>1, <1>2, <1>5, ShellBecame
<1>7. ASSUME run.refresh
      PROVE  \A i \in 1..Len(stack') : /\ Answered(stack'[i])
                                       /\ FreshFrame(stack'[i])
  <2>1. FreshRun
    BY <1>7 DEF RInv
  <2>2. FreshCall(c)
    BY <1>1, <1>2, <2>1, CalleeFresh
  <2>3. c.refresh = TRUE /\ Faithful(c)
    BY <1>3, <2>2 DEF FreshCall, Requests
  <2>4. Become(b)
    BY <1>2, <2>3
  <2> HIDE DEF b, c, new
  <2>5. FreshCall(b)
    BY <1>4, <2>3 DEF FreshCall, Faithful, Leads
  <2> QED
    BY <1>1, <1>2, <1>4, <2>1, <2>4, <2>5, FreshBecame
<1> QED
  BY <1>1, <1>2, <1>3, <1>6, <1>7, RStackMoves

\* A refreshing command reads nothing.
LEMMA RReadSavedKeeps == ASSUME RInv, ReadSaved PROVE RInv'
<1> DEFINE s == Callee.stage
<1>1. PInv /\ PInv' /\ SeenOK
  BY ReadSavedKeeps DEF RInv
<1>2. /\ Calling /\ Callee.op = "read"
      /\ UNCHANGED <<world, files, bound, saved, cache, run, seen>>
  BY DEF ReadSaved
<1>3. Callee \in Requests /\ s \in Saved /\ ~Idle
  BY <1>1, <1>2, CalleeTyped DEF Idle, Calling, Requests
<1>4. Len(stack) \in Nat \ {0} /\ 1 \in 1..Len(stack)
  BY <1>1, TopTyped
<1>5. /\ Len(stack'[1].calls) = Len(stack[1].calls)
      /\ Len(stack[1].calls) = 1 =>
           stack'[1].calls[1].stage = stack[1].calls[1].stage
  <2>1. CASE \E v \in Payload : Finish(v)
    BY <1>1, <1>2, <1>4, <2>1, Finished
  <2>2. CASE \E g : Push(g)
    BY <1>1, <1>4, <2>2, Pushed
  <2>3. CASE \E r \in BOOLEAN : Become(Build(s, FALSE, r, NoPath))
    <3>1. PICK r \in BOOLEAN : Become(Build(s, FALSE, r, NoPath))
      BY <2>3
    <3>2. PICK c : c = Build(s, FALSE, r, NoPath)
      OBVIOUS
    <3>3. c \in Requests /\ c.stage = Callee.stage /\ Become(c)
      BY <1>3, <3>1, <3>2 DEF Build, Call, Requests, AnyPath
    <3> QED
      BY <1>1, <1>2, <3>3, ShellBecame
  <2>4. Blank(s) \in Payload /\ saved[s] \in Payload
    BY <1>1, <1>3, BlankTyped DEF PInv, SavedOK, Stages
  <2> QED
    BY <2>1, <2>2, <2>3, <2>4 DEF ReadSaved, ReadMissing
<1>6. ~run.refresh
  <2>1. ASSUME run.refresh PROVE FALSE
    <3>1. FreshRun
      BY <2>1 DEF RInv
    <3>2. FreshCall(Callee)
      BY <1>1, <1>2, <3>1, CalleeFresh
    <3> QED
      BY <1>2, <3>2 DEF FreshCall
  <2> QED
    BY <2>1
<1> QED
  BY <1>1, <1>2, <1>3, <1>5, <1>6, RStackMoves

LEMMA RMakeKeeps == ASSUME RInv, Make PROVE RInv'
<1> DEFINE c      == Top.call
           result == IF c.op = "read"
                     THEN [Pipeline(Top.got) EXCEPT !.ok = FALSE]
                     ELSE Result(c.stage, c.path, Top.got)
           outer  == SubSeq(stack, 1, Len(stack) - 1)
<1>1. PInv /\ PInv' /\ SeenOK /\ WorldOK
  BY MakeKeeps DEF RInv, PInv
<1>2. /\ Full(Top) /\ Len(stack) > 1
      /\ UNCHANGED <<world, files, bound, run, seen>>
  BY DEF Make
<1>3. ~Idle
  BY <1>1, <1>2, TopTyped DEF Idle
<1>4. FrameOK(Top) /\ IsBuild(Top)
  <2>1. Len(stack) \in 1..Len(stack) /\ Len(stack) \in 2..Len(stack)
    BY <1>1, <1>2, TopTyped
  <2> QED
    BY <1>1, <2>1 DEF PInv, StackOK, StackFor, Top
<1>5. result \in Payload /\ result.stage = c.stage
  BY <1>1, <1>2, <1>4, MadeSound DEF Sound
<1>6. /\ stack' = [outer EXCEPT ![Len(outer)].got = Append(@, result)]
      /\ saved' = IF c.write THEN [saved EXCEPT ![c.stage] = result] ELSE saved
      /\ cache' = IF c.stage = "packet" /\ ~c.write
                  THEN [cache EXCEPT ![c.refresh] = result]
                  ELSE IF c.stage = "readiness" /\ c.write
                  THEN [r \in BOOLEAN |-> Absent] ELSE cache
  BY DEF Make
<1>7. PICK v : v = result
  OBVIOUS
<1>8. /\ Len(stack') = Len(stack) - 1
      /\ \A i \in 1..(Len(stack) - 1) :
           /\ stack'[i].call = stack[i].call
           /\ stack'[i].calls = stack[i].calls
           /\ i # Len(stack) - 1 => stack'[i] = stack[i]
           /\ i = Len(stack) - 1 => stack'[i].got = Append(stack[i].got, v)
  <2>1. v \in Payload
    BY <1>5, <1>7
  <2>2. stack' = [SubSeq(stack, 1, Len(stack) - 1) EXCEPT
                    ![Len(SubSeq(stack, 1, Len(stack) - 1))].got =
                       Append(@, v)]
    BY <1>6, <1>7
  <2> QED
    BY <1>1, <1>2, <2>1, <2>2, Returned
<1>9. SeenOK' /\ Now \in seen /\ Now' \in seen'
  BY <1>1, <1>2, <1>3, SeenStays
<1>10. Commanded'
  <2>1. 1 \in 1..(Len(stack) - 1)
    BY <1>1, <1>2, TopTyped
  <2>2. stack'[1].calls = stack[1].calls
    BY <1>8, <2>1
  <2> QED
    BY <1>2, <2>2, CommandStays DEF RInv
<1> HIDE DEF outer
<1>11. ASSUME run.refresh PROVE FreshRun'
  <2>1. FreshRun
    BY <1>11 DEF RInv
  <2>2. FreshFrame(Top) /\ Answered(Top)
    BY <1>1, <1>3, <2>1, TopFresh
  <2>3. c.op = "build" /\ c.stage \in Saved
    BY <1>4, <2>2 DEF FreshFrame, IsBuild
  <2>4. c.refresh = TRUE /\ c.path \in AnyPath
    BY <1>4, <2>2, <2>3 DEF FreshFrame, FrameOK, Frames, Calls, AnyPath
  <2>5. v = Result(c.stage, c.path, Top.got)
    BY <1>7, <2>3
  <2>6. Asks(Top.calls, c.stage) /\ Len(Top.got) = Len(Top.calls)
    BY <1>2, <1>4, <2>3 DEF FrameOK, Full
  <2>7. /\ Top.got \in Seq(Payload)
        /\ Len(Top.got) = Len(Needs(c.stage))
        /\ \A k \in 1..Len(Top.got) : /\ Fresh(Top.got[k])
                                      /\ Top.got[k].stage = Needs(c.stage)[k]
    BY <1>1, <1>4, <2>2, <2>6, TopTyped DEF Asks, FrameOK, Answered
  <2>8. c.stage \in Resolving \cup {"evidence"} =>
          \A now \in seen : Deserving(now) => c.path = run.path
    BY <2>2, <2>3 DEF FreshFrame, Faithful, Leads, Plain
  <2>9. Fresh(v)
    BY <1>1, <1>9, <2>3, <2>4, <2>5, <2>7, <2>8, ResultFresh
  <2>10. \A i \in 1..Len(stack') : Answered(stack'[i]) /\ FreshFrame(stack'[i])
    <3> TAKE i \in 1..Len(stack')
    <3>1. i \in 1..(Len(stack) - 1) /\ i \in 1..Len(stack)
      BY <1>1, <1>8, TopTyped
    <3>2. FreshFrame(stack[i]) /\ Answered(stack[i])
      BY <1>3, <2>1, <3>1 DEF FreshRun
    <3>3. FreshFrame(stack'[i])
      BY <1>8, <3>1, <3>2 DEF FreshFrame
    <3>4. Answered(stack'[i])
      <4>1. CASE i # Len(stack) - 1
        BY <1>8, <3>1, <3>2, <4>1
      <4>2. CASE i = Len(stack) - 1
        <5>1. stack'[i].got = Append(stack[i].got, v)
          BY <1>8, <3>1, <4>2
        <5>2. stack[i] \in Frames
          BY <1>1, <3>1, TopTyped
        <5>3. stack[i].got \in Seq(Payload)
          BY <5>2 DEF Frames
        <5> QED
          BY <2>9, <3>2, <5>1, <5>3 DEF Answered
      <4> QED
        BY <4>1, <4>2
    <3> QED
      BY <3>3, <3>4
  <2>11. cache'[TRUE] # Absent => Fresh(cache'[TRUE])
    <3>1. cache[TRUE] # Absent => Fresh(cache[TRUE])
      BY <1>3, <2>1 DEF FreshRun
    <3>2. cache \in [BOOLEAN -> Payload]
      BY <1>1 DEF PInv, SavedOK
    <3> QED
      BY <1>6, <1>7, <2>4, <2>9, <3>1, <3>2
  <2>12. \/ saved'["evidence"] = saved["evidence"]
         \/ \A now \in seen : Deserving(now) =>
              saved'["evidence"].ok /\ saved'["evidence"].path = run.path
    <3>1. saved \in [Saved -> Payload] /\ "evidence" \in Saved
      BY <1>1 DEF PInv, SavedOK, Saved
    <3>2. CASE c.write /\ c.stage = "evidence"
      <4>1. saved'["evidence"] = v
        BY <1>6, <1>7, <3>1, <3>2
      <4>2. v.stage = "evidence"
        BY <1>5, <1>7, <3>2
      <4>3. \A now \in seen : Deserving(now) => v.ok /\ v.path = run.path
        BY <2>9, <4>2 DEF Fresh, Merit, Probing
      <4> QED
        BY <4>1, <4>3
    <3>3. CASE ~(c.write /\ c.stage = "evidence")
      BY <1>6, <2>3, <3>1, <3>3
    <3> QED
      BY <3>2, <3>3
  <2> QED
    BY <1>2, <1>9, <2>10, <2>11, <2>12, FreshRunStep
<1> QED
  BY <1>1, <1>2, <1>9, <1>10, <1>11 DEF RInv

LEMMA RStepKeeps == ASSUME RInv, [PNext]_pvars PROVE RInv'
<1>1. CASE ChangeWorld \/ FileApproval \/ WithdrawApproval
  BY <1>1, RWorldMoves
<1>2. CASE StartRun
  BY <1>2, RStartRunKeeps
<1>3. CASE BuildInputs
  BY <1>3, RBuildInputsKeeps
<1>4. CASE SavedOrBuilt
  BY <1>4, RSavedOrBuiltKeeps
<1>5. CASE ReadSaved
  BY <1>5, RReadSavedKeeps
<1>6. CASE Make
  BY <1>6, RMakeKeeps
<1>7. CASE UNCHANGED pvars
  <2>1. PInv /\ PInv'
    BY <1>7, StepKeeps DEF RInv
  <2>2. SeenOK'
    BY <1>7 DEF pvars, RInv, SeenOK, Idle, Top, Now
  <2>3. Commanded'
    BY <1>7 DEF pvars, RInv, Commanded
  <2>4. run.refresh => FreshRun'
    <3>1. run.refresh => FreshRun
      BY DEF RInv
    <3>2. /\ run' = run /\ seen' = seen /\ stack' = stack /\ cache' = cache
          /\ saved'["evidence"] = saved["evidence"]
      BY <1>7 DEF pvars
    <3>3. /\ \A f : Answered(f) => Answered(f)'
          /\ \A v : Fresh(v) => Fresh(v)'
      BY <3>2, AnsweredStays, FreshStays
    <3>4. Idle' = Idle /\ Absent' = Absent
      BY <3>2 DEF Idle, Top, Absent, Blank
    <3>5. ASSUME ~Idle PROVE \A f : FreshFrame(f) => FreshFrame(f)'
      <4>1. Now \in seen /\ Now' \in seen'
        BY <2>2, <3>4, <3>5 DEF RInv, SeenOK
      <4> QED
        BY <3>2, <4>1, FreshFrameStays
    <3>6. ASSUME run.refresh PROVE FreshRun'
      <4>1. FreshRun
        BY <3>1, <3>6
      <4>2. \A i \in 1..Len(stack') : Answered(stack[i])'
        BY <3>2, <3>3, <4>1 DEF FreshRun
      <4>3. ASSUME ~Idle
            PROVE  /\ \A i \in 1..Len(stack') : FreshFrame(stack[i])'
                   /\ cache'[TRUE] # Absent => Fresh(cache[TRUE])'
        <5>1. cache[TRUE] # Absent => Fresh(cache[TRUE])
          BY <4>1, <4>3 DEF FreshRun
        <5>2. cache[TRUE] # Absent => Fresh(cache[TRUE])'
          BY <3>2, <3>3, <5>1
        <5> QED
          BY <3>2, <3>5, <4>1, <4>3, <5>2 DEF FreshRun
      <4> QED
        BY <3>4, <4>2, <4>3 DEF FreshRun
    <3> QED
      BY <3>6
  <2> QED
    BY <1>7, <2>1, <2>2, <2>3, <2>4 DEF RInv, pvars
<1> QED
  BY <1>1, <1>2, <1>3, <1>4, <1>5, <1>6, <1>7 DEF PNext, RunStep

-----------------------------------------------------------------------------
(* The theorems about refreshing commands.                                 *)

\* The invariant holds for any contracts, commands and bounds.
THEOREM RInvHolds == PSpec => []RInv
<1>1. PInit => RInv
  BY RInitEstablishes
<1>2. RInv /\ [PNext]_pvars => RInv'
  BY RStepKeeps
<1> QED
  BY <1>1, <1>2, PTL DEF PSpec

\* The answer of a refreshing command that has ended.
LEMMA AnswerFresh ==
    ASSUME RInv, Ended, run.refresh
    PROVE  Fresh(Answer) /\ Answer \in Payload /\ Answer.stage = run.stage
<1>1. PInv /\ FreshRun
  BY DEF RInv
<1>2. Len(stack) = 1 /\ Full(stack[1]) /\ run.stage \in Saved
  BY DEF Ended, Idle, Top
<1>3. Len(stack[1].calls) = 1 /\ stack[1].calls[1].stage = run.stage
  BY <1>2 DEF RInv, Commanded
<1>4. Len(stack[1].got) = 1
  BY <1>2, <1>3 DEF Full
<1>5. FrameOK(stack[1]) /\ Top = stack[1]
  BY <1>1, <1>2, TopTyped
<1>6. 1 \in 1..Len(stack) /\ 1 \in 1..Len(stack[1].got)
  BY <1>2, <1>4
<1>7. Sound(Answer) /\ Answer.stage = run.stage
  BY <1>3, <1>5, <1>6 DEF FrameOK, Answer
<1>8. Fresh(Answer)
  BY <1>1, <1>6 DEF FreshRun, Answered, Answer
<1> QED
  BY <1>7, <1>8 DEF Sound

\* A refreshing command that says "ready" saw, at some moment of its own run,
\* an approval of the packet it reports, that packet's contract and, if it
\* probes, good probes and the live mode, for any contracts and commands.
THEOREM RefreshUsesThisRunHolds == PSpec => []RefreshUsesThisRun
<1>1. RInv => RefreshUsesThisRun
  <2> SUFFICES ASSUME RInv, Ended, run.refresh, run.stage \in Verdicts,
                      Answer.ok
               PROVE  /\ Vouched(Answer.hash)
                      /\ run.stage \in Probing => Probed
    BY DEF RefreshUsesThisRun, Vouched, Probed
  <2> QED
    BY AnswerFresh DEF Fresh, Earned
<1> QED
  BY <1>1, RInvHolds, PTL

\* A refreshing command during which nothing changed gives the verdict the
\* world and the approvals deserve: what earlier commands saved turns it
\* neither way.
THEOREM CalmRefreshExactHolds == PSpec => []CalmRefreshExact
<1>1. RInv => CalmRefreshExact
  <2> SUFFICES ASSUME RInv, Ended, run.refresh,
                      run.stage \in Verdicts \cup Probing,
                      Cardinality(seen) = 1, NEW now \in seen
               PROVE  /\ Deserved(run.stage, now, {run.path}) => Answer.ok
                      /\ Answer.ok => Deserved(run.stage, now, Paths)
    BY DEF CalmRefreshExact
  <2>1. Fresh(Answer) /\ Answer.stage = run.stage
    BY AnswerFresh
  <2>2. seen = {now}
    BY FS_Singleton DEF RInv, SeenOK
  <2>3. ASSUME Deserved(run.stage, now, {run.path}) PROVE Answer.ok
    <3>1. Deserving(now)
      BY <2>2, <2>3 DEF Deserving, Deserved
    <3>2. Merit(Answer, now)
      BY <2>1, <3>1 DEF Fresh
    <3> QED
      BY <2>1, <2>3, <3>2 DEF Merit, Deserved
  <2>4. ASSUME Answer.ok PROVE Deserved(run.stage, now, Paths)
    <3>1. \E h : Vouched(h)
      BY <2>1, <2>4 DEF Fresh, Earned
    <3>2. /\ now.world.contract # NoContract
          /\ \E p \in Paths : p \in now.files
                                /\ now.bound[p] = HashOf(now.world)
      BY <2>2, <3>1 DEF Vouched
    <3>3. run.stage \in Probing => now.world.probe /\ now.world.mode
      BY <2>1, <2>2, <2>4 DEF Fresh, Earned, Probed
    <3> QED
      BY <3>2, <3>3 DEF Deserved
  <2> QED
    BY <2>3, <2>4
<1> QED
  BY <1>1, RInvHolds, PTL
=============================================================================
