---------------------------- MODULE Marshal_proofs ----------------------------
(***************************************************************************)
(* Proofs about Marshal, for any number of sources, slots and calls.       *)
(***************************************************************************)
EXTENDS Marshal, SequenceTheorems, TLAPS

-----------------------------------------------------------------------------
(* The two ways in which the targets change.                               *)

MadeType == made \in Seq([of : Sources, slots : Seq(Targets \cup {Leaf, Hole}), call : 1 .. calls])

LEMMA SeqWider ==
  ASSUME NEW S, NEW T, S \subseteq T, NEW s \in Seq(S)
  PROVE  s \in Seq(T)
  OBVIOUS

LEMMA SeqElement ==
  ASSUME NEW S, NEW s \in Seq(S), NEW i \in 1 .. Len(s)
  PROVE  s[i] \in S
  OBVIOUS

LEMMA SeqCut ==
  ASSUME NEW S, NEW s \in Seq(S), NEW n \in 1 .. Len(s)
  PROVE  /\ SubSeq(s, 1, n - 1) \in Seq(S)
         /\ Len(SubSeq(s, 1, n - 1)) = n - 1
         /\ \A i \in 1 .. n - 1 : SubSeq(s, 1, n - 1)[i] = s[i]
<1>1. n \in Int /\ n - 1 \in Int /\ Len(s) \in Nat
  OBVIOUS
<1>2. \A i \in 1 .. n - 1 : s[i] \in S /\ 1 + i - 1 = i
  BY <1>1, SeqElement
<1>3. /\ SubSeq(s, 1, n - 1) \in Seq(S)
      /\ Len(SubSeq(s, 1, n - 1)) = IF 1 <= n - 1 THEN (n - 1) - 1 + 1 ELSE 0
      /\ \A i \in 1 .. (n - 1) - 1 + 1 : SubSeq(s, 1, n - 1)[i] = s[1 + i - 1]
  BY ONLY <1>1, <1>2, SubSeqProperties
<1>4. (n - 1) - 1 + 1 = n - 1 /\ (~(1 <= n - 1) => n - 1 = 0)
  BY <1>1
<1> QED
  BY <1>2, <1>3, <1>4

LEMMA SeqAppend ==
  ASSUME NEW S, NEW s \in Seq(S), NEW v
  PROVE  /\ Len(s) \in Nat /\ Len(Append(s, v)) = Len(s) + 1
         /\ \A i \in 1 .. Len(s) : Append(s, v)[i] = s[i]
         /\ Append(s, v)[Len(s) + 1] = v
  OBVIOUS

LEMMA SeqExcept ==
  ASSUME NEW S, NEW s \in Seq(S), NEW i \in 1 .. Len(s), NEW v \in S
  PROVE  /\ [s EXCEPT ![i] = v] \in Seq(S)
         /\ Len([s EXCEPT ![i] = v]) = Len(s)
         /\ \A j \in 1 .. Len(s) : [s EXCEPT ![i] = v][j] = IF j = i THEN v ELSE s[j]
  OBVIOUS

\* The stack without its top.
LEMMA BelowFacts ==
  ASSUME frames \in Seq(Frame), frames # << >>
  PROVE  /\ Len(frames) \in Nat /\ Len(frames) >= 1
         /\ Below \in Seq(Frame)
         /\ Len(Below) = Len(frames) - 1
         /\ \A i \in 1 .. Len(frames) - 1 : Below[i] = frames[i]
         /\ Top \in Frame /\ Top = frames[Len(frames)]
<1>1. Len(frames) \in Nat /\ Len(frames) >= 1
  OBVIOUS
<1>2. Len(frames) \in 1 .. Len(frames)
  BY <1>1
<1> QED
  BY <1>1, <1>2, SeqCut, SeqElement DEF Below, Top

\* The frame on top goes on to its next slot.
LEMMA AdvanceFacts ==
  ASSUME NEW fs \in Seq(Frame), fs # << >>, fs[Len(fs)].next <= MaxSlots
  PROVE  /\ Advance(fs) \in Seq(Frame)
         /\ Len(Advance(fs)) = Len(fs) /\ Len(fs) \in Nat /\ Len(fs) >= 1
         /\ \A i \in 1 .. Len(fs) :
              /\ Advance(fs)[i].of = fs[i].of
              /\ Advance(fs)[i].to = fs[i].to
              /\ Advance(fs)[i].root = fs[i].root
              /\ Advance(fs)[i].next = IF i = Len(fs) THEN fs[i].next + 1 ELSE fs[i].next
<1> DEFINE n == Len(fs)
           f == [fs[n] EXCEPT !.next = @ + 1]
<1>1. n \in 1 .. Len(fs)
  OBVIOUS
<1>2. \A i \in 1 .. n : fs[i] \in Frame
  BY SeqElement
<1>3. fs[n].next + 1 \in 1 .. MaxSlots + 1
  BY <1>1, <1>2, MarshalAssumption DEF Frame
<1>4. /\ f \in Frame
      /\ f.of = fs[n].of /\ f.to = fs[n].to /\ f.root = fs[n].root /\ f.next = fs[n].next + 1
  BY <1>1, <1>2, <1>3 DEF Frame
<1>5. Advance(fs) = [fs EXCEPT ![n] = f]
  BY DEF Advance
<1> HIDE DEF n, f
<1>6. /\ Advance(fs) \in Seq(Frame)
      /\ Len(Advance(fs)) = Len(fs)
      /\ \A i \in 1 .. Len(fs) : Advance(fs)[i] = IF i = n THEN f ELSE fs[i]
  BY <1>1, <1>4, <1>5, SeqExcept
<1> QED
  BY <1>1, <1>4, <1>6 DEF n

\* A slot more in the target t.
LEMMA PutFacts ==
  ASSUME TypeOK, NEW f, f.to \in Targets, NEW v \in Targets \cup {Leaf, Hole}
  PROVE  /\ Len(Put(made, f, v)) = Len(made)
         /\ Put(made, f, v) \in
              Seq([of : Sources, slots : Seq(Targets \cup {Leaf, Hole}), call : 1 .. calls])
         /\ \A t \in Targets :
              /\ Put(made, f, v)[t].of = made[t].of
              /\ Put(made, f, v)[t].call = made[t].call
              /\ t # f.to => Put(made, f, v)[t].slots = made[t].slots
         /\ Put(made, f, v)[f.to].slots = Append(made[f.to].slots, v)
<1> DEFINE Target == [of : Sources, slots : Seq(Targets \cup {Leaf, Hole}), call : 1 .. calls]
<1>1. made \in Seq(Target)
  BY DEF TypeOK
<1>2. \A t \in Targets : made[t] \in Target
  BY <1>1, SeqElement DEF Targets
<1>3. Append(made[f.to].slots, v) \in Seq(Targets \cup {Leaf, Hole})
  BY <1>2
<1>4. [made[f.to] EXCEPT !.slots = Append(@, v)] \in Target
  BY <1>2, <1>3
<1> HIDE DEF Target
<1>5. Put(made, f, v) = [made EXCEPT ![f.to] = [made[f.to] EXCEPT !.slots = Append(@, v)]]
  BY DEF Put
<1>6. Put(made, f, v) \in Seq(Target) /\ Len(Put(made, f, v)) = Len(made)
  BY <1>1, <1>4, <1>5, SeqExcept DEF Targets
<1>7. \A t \in Targets : Put(made, f, v)[t] =
        IF t = f.to THEN [made[f.to] EXCEPT !.slots = Append(@, v)] ELSE made[t]
  BY <1>1, <1>4, <1>5, SeqExcept DEF Targets
<1>8. \A t \in Targets : /\ Put(made, f, v)[t].of = made[t].of
                         /\ Put(made, f, v)[t].call = made[t].call
                         /\ t # f.to => Put(made, f, v)[t].slots = made[t].slots
  BY <1>2, <1>7 DEF Target
<1>9. Put(made, f, v)[f.to].slots = Append(made[f.to].slots, v)
  BY <1>2, <1>7 DEF Target
<1> QED
  BY <1>6, <1>8, <1>9 DEF Target

\* A frame and a target more.
LEMMA EnterFacts ==
  ASSUME TypeOK, NEW o \in Sources, NEW root \in BOOLEAN,
         calls' \in Nat, calls' >= 1, calls' >= calls, Enter(o, calls', root)
  PROVE  /\ Len(made) \in Nat /\ Len(made') = Len(made) + 1
         /\ made' \in Seq([of : Sources, slots : Seq(1 .. Len(made') \cup {Leaf, Hole}), call : 1 .. calls'])
         /\ \A t \in Targets : made'[t] = made[t]
         /\ made'[Len(made) + 1] = [of |-> o, slots |-> << >>, call |-> calls']
         /\ Len(frames) \in Nat /\ Len(frames') = Len(frames) + 1
         /\ \A i \in DOMAIN frames : frames'[i] = frames[i]
         /\ frames'[Len(frames) + 1] = [of |-> o, to |-> Len(made) + 1, next |-> 1, root |-> root]
         /\ frames' \in Seq([of : Sources, to : 1 .. Len(made'), next : 1 .. MaxSlots + 1, root : BOOLEAN])
<1> DEFINE Target == [of : Sources, slots : Seq(Targets \cup {Leaf, Hole}), call : 1 .. calls]
           Wide == [of : Sources, slots : Seq(1 .. Len(made') \cup {Leaf, Hole}), call : 1 .. calls']
           t0 == [of |-> o, slots |-> << >>, call |-> calls']
           f0 == [of |-> o, to |-> Len(made) + 1, next |-> 1, root |-> root]
           WideFrame == [of : Sources, to : 1 .. Len(made'), next : 1 .. MaxSlots + 1, root : BOOLEAN]
<1>1. made \in Seq(Target) /\ frames \in Seq(Frame) /\ calls \in Nat /\ MaxSlots \in Nat
  BY MarshalAssumption DEF TypeOK
<1>2. Len(made) \in Nat /\ Len(made') = Len(made) + 1 /\ Targets = 1 .. Len(made)
  BY <1>1 DEF Targets, Enter
<1>3. Targets \cup {Leaf, Hole} \subseteq 1 .. Len(made') \cup {Leaf, Hole}
  BY <1>2
<1>4. Seq(Targets \cup {Leaf, Hole}) \subseteq Seq(1 .. Len(made') \cup {Leaf, Hole})
  BY <1>3, SeqWider
<1>5. 1 .. calls \subseteq 1 .. calls'
  BY <1>1
<1>6. Target \subseteq Wide
  BY <1>4, <1>5
<1>7. made \in Seq(Wide)
  <2> HIDE DEF Wide, Target
  <2> QED
    BY <1>1, <1>6, SeqWider
<1>8. << >> \in Seq(1 .. Len(made') \cup {Leaf, Hole})
  OBVIOUS
<1>9. t0 \in Wide
  BY <1>8
<1>10. Frame \subseteq WideFrame
  BY <1>2 DEF Frame
<1>11. frames \in Seq(WideFrame)
  BY <1>1, <1>10, SeqWider
<1>12. f0 \in WideFrame
  BY <1>1, <1>2
<1> HIDE DEF Wide, Target, t0, f0, WideFrame
<1>13. /\ made' \in Seq(Wide)
       /\ \A t \in Targets : made'[t] = made[t]
       /\ made'[Len(made) + 1] = t0
  BY <1>7, <1>9, <1>2 DEF t0, Enter
<1>14. /\ Len(frames) \in Nat /\ Len(frames') = Len(frames) + 1
       /\ \A i \in DOMAIN frames : frames'[i] = frames[i]
       /\ frames'[Len(frames) + 1] = f0
       /\ frames' \in Seq(WideFrame)
  BY <1>11, <1>12 DEF f0, Enter
<1> QED
  BY <1>2, <1>13, <1>14 DEF Wide, t0, f0, WideFrame
-----------------------------------------------------------------------------
(* Types, and the order of the stack.                                      *)

Reads(f) == f.next <= Len(graph[f.of]) /\ (toPerl \/ graph[f.of][f.next] # Hole)

\* A source that is converted for a slot was found there, and goes there.
StackInv ==
  /\ frames # << >> => frames[1].root
  /\ \A i \in 2 .. Len(frames) : ~frames[i].root =>
       /\ Reads(frames[i - 1])
       /\ graph[frames[i - 1].of][frames[i - 1].next] \in {frames[i].of, Active}

TypeInv == TypeOK /\ StackInv

LEMMA InitType == Init => TypeInv
<1> SUFFICES ASSUME Init PROVE TypeInv
  OBVIOUS
<1>1. \A o \in Sources : graph[o] \in Seq(Value) /\ Len(graph[o]) <= MaxSlots
  <2> SUFFICES ASSUME NEW o \in Sources
               PROVE  graph[o] \in Seq(Value) /\ Len(graph[o]) <= MaxSlots
    OBVIOUS
  <2>1. PICK n \in 0 .. MaxSlots : graph[o] \in [1 .. n -> Value]
    BY DEF Init
  <2> QED
    BY <2>1, MarshalAssumption
<1>2. graph \in [Sources -> Seq(Value)]
  BY <1>1 DEF Init
<1>3. DOMAIN seen = {} /\ Len(made) = 0 /\ Len(frames) = 0
  BY DEF Init
<1>4. /\ made \in Seq([of : Sources, slots : Seq(Targets \cup {Leaf, Hole}), call : 1 .. calls])
      /\ frames \in Seq(Frame)
  BY DEF Init
<1>5. TypeOK
  <2>1. calls \in 0 .. begun /\ begun \in 0 .. MaxCalls
    BY MarshalAssumption DEF Init
  <2>2. /\ toPerl \in BOOLEAN /\ croaked \in BOOLEAN
        /\ disturbed \subseteq 1 .. calls /\ handed \subseteq Targets
    BY DEF Init
  <2> QED
    BY <1>1, <1>2, <1>3, <1>4, <2>1, <2>2 DEF TypeOK
<1>6. StackInv
  BY <1>3 DEF Init, StackInv
<1> QED
  BY <1>5, <1>6 DEF TypeInv

\* The slot that the top frame is at can be advanced from.
LEMMA ReadsIsSlot ==
  ASSUME TypeOK, NEW f \in Frame, Reads(f)
  PROVE  f.next <= MaxSlots /\ f.next \in DOMAIN graph[f.of] /\ graph[f.of][f.next] \in Value
<1>1. f.of \in Sources /\ f.next \in 1 .. MaxSlots + 1
  BY DEF Frame
<1>2. graph[f.of] \in Seq(Value) /\ Len(graph[f.of]) <= MaxSlots
  BY <1>1 DEF TypeOK
<1>3. f.next \in 1 .. Len(graph[f.of]) /\ f.next <= MaxSlots
  BY <1>1, <1>2, MarshalAssumption DEF Reads
<1> QED
  BY <1>2, <1>3, SeqElement

\* Steps that put v into the target of the top frame of fs, which is frames or Below.
LEMMA PutKeepsType ==
  ASSUME TypeInv, NEW n \in 1 .. Len(frames), NEW fs \in Seq(Frame),
         Len(fs) = n, \A i \in 1 .. n : fs[i] = frames[i],
         Reads(frames[n]), NEW v \in Targets \cup {Leaf, Hole},
         made' = Put(made, frames[n], v), frames' = Advance(fs),
         UNCHANGED <<history, seen, handed>>
  PROVE  TypeInv'
<1> USE DEF TypeInv
<1>1. /\ frames \in Seq(Frame) /\ Len(frames) \in Nat /\ frames[n] \in Frame
      /\ frames[n].to \in Targets /\ n \in Nat /\ n >= 1 /\ fs # << >>
  <2>1. frames \in Seq(Frame)
    BY DEF TypeOK
  <2>2. Len(frames) \in Nat /\ n \in Nat /\ n >= 1
    BY <2>1
  <2>3. frames[n] \in Frame
    BY <2>1, SeqElement
  <2> QED
    BY <2>1, <2>2, <2>3 DEF Frame
<1>2. frames[n].next <= MaxSlots
  BY <1>1, ReadsIsSlot
<1>3. /\ frames' \in Seq(Frame) /\ Len(frames') = n
      /\ \A i \in 1 .. n : /\ frames'[i].of = frames[i].of
                           /\ frames'[i].root = frames[i].root
                           /\ i # n => frames'[i].next = frames[i].next
  BY <1>1, <1>2, AdvanceFacts
<1>4. Len(made') = Len(made) /\ MadeType'
  BY <1>1, PutFacts DEF MadeType, Targets, history
<1>5. Targets' = Targets /\ Sources' = Sources /\ Frame' = Frame
  BY <1>4 DEF Targets, Frame
<1>6. TypeOK'
  BY <1>3, <1>4, <1>5 DEF TypeOK, MadeType, history
<1>7. StackInv'
  <2>1. frames'[1].root
    BY <1>1, <1>3 DEF StackInv
  <2>2. ASSUME NEW i \in 2 .. n, ~frames'[i].root
        PROVE  /\ Reads(frames[i - 1])'
               /\ graph'[frames'[i - 1].of][frames'[i - 1].next] \in {frames'[i].of, Active}
    <3>1. i \in 2 .. Len(frames) /\ i - 1 \in 1 .. n /\ i - 1 # n /\ i \in 1 .. n
      BY <1>1
    <3>2. Reads(frames[i - 1]) /\ graph[frames[i - 1].of][frames[i - 1].next] \in {frames[i].of, Active}
      BY <1>3, <2>2, <3>1 DEF StackInv
    <3>3. frames'[i - 1].of = frames[i - 1].of /\ frames'[i - 1].next = frames[i - 1].next
      BY <1>3, <3>1
    <3> QED
      BY <1>3, <3>1, <3>2, <3>3 DEF Reads, history
  <2> QED
    BY <1>3, <2>1, <2>2 DEF StackInv
<1> QED
  BY <1>6, <1>7

\* Steps that leave the lower part of the stack.
LEMMA CutKeepsType ==
  ASSUME TypeInv, NEW n \in 1 .. Len(frames), frames' = SubSeq(frames, 1, n - 1),
         UNCHANGED <<toPerl, graph, made, calls, begun, disturbed>>,
         seen' = seen \/ seen' = << >>, handed' \subseteq Targets, croaked' \in BOOLEAN
  PROVE  TypeInv'
<1> USE DEF TypeInv
<1>1. frames \in Seq(Frame) /\ Len(frames) \in Nat
  BY DEF TypeOK
<1>2. frames' \in Seq(Frame) /\ Len(frames') = n - 1 /\ \A i \in 1 .. n - 1 : frames'[i] = frames[i]
  BY <1>1, SeqCut
<1>3. Targets' = Targets /\ Sources' = Sources /\ Frame' = Frame
  BY DEF Targets, Frame
<1>4. DOMAIN seen' \subseteq Sources /\ \A o \in DOMAIN seen' : seen'[o] \in Targets
  <2>1. DOMAIN << >> = {}
    OBVIOUS
  <2> QED
    BY <2>1 DEF TypeOK
<1>5. TypeOK'
  BY <1>2, <1>3, <1>4 DEF TypeOK
<1>6. StackInv'
  <2>1. frames' # << >> => frames'[1].root
    BY <1>1, <1>2 DEF StackInv
  <2>2. \A i \in 2 .. n - 1 : /\ i \in 2 .. Len(frames) /\ i - 1 \in 1 .. n - 1
                             /\ frames'[i] = frames[i] /\ frames'[i - 1] = frames[i - 1]
    BY <1>1, <1>2
  <2> QED
    BY <1>2, <2>1, <2>2 DEF StackInv, Reads
<1> QED
  BY <1>5, <1>6

\* Steps that enter a source.
LEMMA EnterKeepsType ==
  ASSUME TypeInv, NEW o \in Sources, NEW root \in BOOLEAN,
         calls' \in Nat, calls' >= 1, calls' >= calls, calls' <= begun', begun' \in 0 .. MaxCalls,
         disturbed' \subseteq 1 .. calls', UNCHANGED <<toPerl, graph, croaked, handed>>,
         Enter(o, calls', root),
         frames = << >> => root,
         ~root => Reads(Top) /\ graph[Top.of][Top.next] \in {o, Active}
  PROVE  TypeInv'
<1> USE DEF TypeInv
<1> DEFINE k == Len(frames)
<1>1. /\ Len(made) \in Nat /\ Len(made') = Len(made) + 1
      /\ made' \in Seq([of : Sources, slots : Seq(1 .. Len(made') \cup {Leaf, Hole}), call : 1 .. calls'])
      /\ k \in Nat /\ Len(frames') = k + 1
      /\ \A i \in DOMAIN frames : frames'[i] = frames[i]
      /\ frames'[k + 1] = [of |-> o, to |-> Len(made) + 1, next |-> 1, root |-> root]
      /\ frames' \in Seq([of : Sources, to : 1 .. Len(made'), next : 1 .. MaxSlots + 1, root : BOOLEAN])
  BY EnterFacts
<1>a. Len(made) \in Nat /\ Len(made') = Len(made) + 1
  BY <1>1
<1>b. k \in Nat /\ Len(frames') = k + 1
  BY <1>1
<1>c. frames'[k + 1].of = o /\ frames'[k + 1].root = root
  BY <1>1
<1>2. Targets' = Targets \cup {Len(made) + 1} /\ Len(made) + 1 \in Targets'
  BY ONLY <1>a DEF Targets
<1>3. DOMAIN seen' \subseteq Sources /\ \A p \in DOMAIN seen' : seen'[p] \in Targets'
  BY <1>2 DEF Enter, Remember, TypeOK
<1>4. TypeOK'
  <2>1. made' \in Seq([of : Sources, slots : Seq(Targets' \cup {Leaf, Hole}), call : 1 .. calls'])
    BY <1>1 DEF Targets
  <2>2. frames' \in Seq([of : Sources, to : Targets', next : 1 .. MaxSlots + 1, root : BOOLEAN])
    BY <1>1 DEF Targets
  <2>3. handed' \subseteq Targets'
    BY <1>2 DEF TypeOK
  <2>4. calls' \in 0 .. begun' /\ begun' \in 0 .. MaxCalls
    OBVIOUS
  <2>5. toPerl' \in BOOLEAN /\ graph' \in [Sources -> Seq(Value)] /\ \A p \in Sources : Len(graph'[p]) <= MaxSlots
    BY DEF TypeOK
  <2> QED
    BY <1>3, <2>1, <2>2, <2>3, <2>4, <2>5 DEF TypeOK, Frame
<1>5. frames \in Seq(Frame) /\ DOMAIN frames = 1 .. k
  BY DEF TypeOK
<1> HIDE DEF TypeInv
<1>6. StackInv'
  <2>1. frames'[1].root
    <3>1. CASE frames = << >>
      BY <1>1, <3>1
    <3>2. CASE frames # << >>
      <4>1. 1 \in DOMAIN frames
        BY <1>5, <3>2
      <4> QED
        BY <1>1, <3>2, <4>1 DEF TypeInv, StackInv
    <3> QED
      BY <3>1, <3>2
  <2>2. ASSUME NEW i \in 2 .. Len(frames'), ~frames'[i].root
        PROVE  /\ Reads(frames[i - 1])'
               /\ graph'[frames'[i - 1].of][frames'[i - 1].next] \in {frames'[i].of, Active}
    <3>0. i - 1 \in DOMAIN frames
      BY <1>b, <1>5
    <3>1. i - 1 \in DOMAIN frames /\ frames'[i - 1] = frames[i - 1]
      BY <1>1, <3>0
    <3>2. CASE i \in DOMAIN frames
      <4>1. i \in 2 .. Len(frames) /\ frames'[i] = frames[i]
        BY <1>1, <1>5, <3>2
      <4> QED
        BY <2>2, <3>1, <4>1 DEF TypeInv, StackInv, Reads
    <3>3. CASE i = k + 1
      <4>1. i - 1 = k /\ frames[i - 1] = Top /\ frames'[i].of = o /\ ~root
        BY <1>b, <1>c, <2>2, <3>3 DEF Top
      <4> QED
        BY <3>1, <4>1 DEF Reads
    <3> QED
      BY <1>b, <1>5, <3>2, <3>3
  <2> QED
    BY <2>1, <2>2 DEF StackInv
<1> QED
  BY <1>4, <1>6 DEF TypeInv

\* What a call does to the counts.
LEMMA CalledFacts ==
  ASSUME TypeInv, Called
  PROVE  /\ calls' \in Nat /\ calls' >= 1 /\ calls' >= calls /\ calls \in Nat
         /\ calls' <= begun' /\ begun' \in 0 .. MaxCalls
         /\ disturbed' \subseteq 1 .. calls'
         /\ UNCHANGED <<toPerl, graph, croaked>>
         /\ frames = << >> => calls' = calls + 1 /\ disturbed' = disturbed
         /\ frames # << >> => calls' = calls /\ calls \in disturbed'
<1>1. calls \in 0 .. begun /\ begun \in 0 .. MaxCalls /\ disturbed \subseteq 1 .. calls
  BY DEF TypeInv, TypeOK
<1>2. calls \in Nat /\ begun \in Nat /\ MaxCalls \in Nat /\ calls <= begun
  BY <1>1, MarshalAssumption
<1>3. CASE frames = << >>
  BY <1>1, <1>2, <1>3 DEF Called
<1>4. CASE frames # << >>
  <2>1. Len(frames) >= 1 /\ Len(frames) \in Nat /\ frames \in Seq(Frame)
    BY <1>4 DEF TypeInv, TypeOK
  <2>2. Top \in Frame
    BY <1>4, <2>1, BelowFacts
  <2>3. Top.to \in Targets
    BY <2>2 DEF Frame
  <2>4. made[Top.to].call \in 1 .. calls
    <3>1. MadeType
      BY DEF TypeInv, TypeOK, MadeType
    <3>2. made[Top.to] \in [of : Sources, slots : Seq(Targets \cup {Leaf, Hole}), call : 1 .. calls]
      BY <2>3, <3>1, SeqElement DEF MadeType, Targets
    <3> QED
      BY <3>2
  <2>5. calls >= 1
    BY <1>2, <2>4
  <2> QED
    BY <1>1, <1>2, <1>4, <2>5 DEF Called
<1> QED
  BY <1>3, <1>4

\* A call that ends at once.
LEMMA AtOnceKeepsType ==
  ASSUME TypeInv, Called, seen' = << >>, UNCHANGED <<made, frames>>, handed' \subseteq Targets
  PROVE  TypeInv'
<1>1. /\ calls' \in Nat /\ calls' >= calls /\ calls \in Nat
      /\ calls' <= begun' /\ begun' \in 0 .. MaxCalls
      /\ disturbed' \subseteq 1 .. calls' /\ UNCHANGED <<toPerl, graph, croaked>>
  BY CalledFacts
<1>2. Targets' = Targets /\ Sources' = Sources /\ Frame' = Frame /\ DOMAIN seen' = {}
  BY DEF Targets, Frame
<1>3. 1 .. calls \subseteq 1 .. calls'
  BY <1>1
<1> DEFINE Old == [of : Sources, slots : Seq(Targets \cup {Leaf, Hole}), call : 1 .. calls]
           New == [of : Sources, slots : Seq(Targets \cup {Leaf, Hole}), call : 1 .. calls']
<1>4. made \in Seq(New)
  <2>1. Old \subseteq New /\ made \in Seq(Old)
    BY <1>3 DEF TypeInv, TypeOK
  <2> HIDE DEF Old, New
  <2> QED
    BY <2>1, SeqWider
<1>5. TypeOK'
  BY <1>1, <1>2, <1>4 DEF TypeInv, TypeOK
<1>6. StackInv'
  BY <1>1 DEF TypeInv, StackInv, Reads
<1> QED
  BY <1>5, <1>6 DEF TypeInv

LEMMA InSlotReads == InSlot <=> frames # << >> /\ Reads(Top)
  BY DEF InSlot, HasSlot, Reads, Slot

\* The source that is done was found in the slot of the frame below.
LEMMA ReturnFacts ==
  ASSUME TypeInv, Return
  PROVE  LET n == Len(frames) - 1
         IN /\ n \in 1 .. Len(frames)
            /\ Below \in Seq(Frame) /\ Len(Below) = n
            /\ \A i \in 1 .. n : Below[i] = frames[i]
            /\ Reads(frames[n])
            /\ graph[frames[n].of][frames[n].next] \in {Top.of, Active}
            /\ Top \in Frame /\ Top.to \in Targets /\ Top = frames[n + 1]
<1>1. frames \in Seq(Frame) /\ frames # << >> /\ ~Top.root
  BY DEF TypeInv, TypeOK, Return, AtEnd
<1>2. /\ Len(frames) \in Nat /\ Len(frames) >= 1
      /\ Below \in Seq(Frame)
      /\ Len(Below) = Len(frames) - 1
      /\ \A i \in 1 .. Len(frames) - 1 : Below[i] = frames[i]
      /\ Top \in Frame /\ Top = frames[Len(frames)]
  BY <1>1, BelowFacts
<1>3. Len(frames) # 1
  BY <1>1, <1>2 DEF TypeInv, StackInv
<1>4. Len(frames) \in 2 .. Len(frames) /\ Len(frames) - 1 \in 1 .. Len(frames)
      /\ Len(frames) - 1 + 1 = Len(frames)
  BY <1>2, <1>3
<1>5. /\ Reads(frames[Len(frames) - 1])
      /\ graph[frames[Len(frames) - 1].of][frames[Len(frames) - 1].next] \in {Top.of, Active}
  BY <1>1, <1>2, <1>4 DEF TypeInv, StackInv
<1> QED
  BY <1>2, <1>4, <1>5 DEF Frame

\* What goes into a slot.
LEMMA GetFacts ==
  ASSUME TypeInv, NEW v, Gets(v)
  PROVE  /\ Len(frames) \in 1 .. Len(frames) /\ Len(frames) \in Nat
         /\ frames \in Seq(Frame) /\ frames # << >>
         /\ Top = frames[Len(frames)] /\ Top \in Frame
         /\ Reads(Top) /\ graph[Top.of][Top.next] \in {v, Active}
<1>1. frames \in Seq(Frame) /\ frames # << >> /\ Reads(Top)
  BY InSlotReads DEF TypeInv, TypeOK, Gets
<1> QED
  BY <1>1, BelowFacts DEF Gets, Slot

LEMMA NextType == TypeInv /\ [Next]_vars => TypeInv'
<1> SUFFICES ASSUME TypeInv, [Next]_vars PROVE TypeInv'
  OBVIOUS
<1>1. ASSUME NEW o \in Sources, ConvertSeen(o) PROVE TypeInv'
  <2>1. handed' \subseteq Targets
    BY <1>1 DEF ConvertSeen, Known, TypeInv, TypeOK
  <2> QED
    BY <1>1, <2>1, AtOnceKeepsType DEF ConvertSeen, SeenAfter
<1>2. ASSUME NEW o \in Sources, ConvertNew(o) PROVE TypeInv'
  <2>1. Called /\ Enter(o, calls', TRUE) /\ UNCHANGED handed
    BY <1>2 DEF ConvertNew
  <2> QED
    BY <2>1, CalledFacts, EnterKeepsType
<1>3. ASSUME ConvertOther PROVE TypeInv'
  <2>1. handed' \subseteq Targets
    BY <1>3 DEF ConvertOther, TypeInv, TypeOK
  <2> QED
    BY <1>3, <2>1, AtOnceKeepsType DEF ConvertOther, SeenAfter
<1>4. ASSUME NEW v \in {Leaf, Hole}, GetPlain(v) PROVE TypeInv'
  <2>1. /\ Gets(v) /\ made' = Put(made, Top, v) /\ frames' = Advance(frames)
        /\ UNCHANGED <<history, seen, handed>>
    BY <1>4 DEF GetPlain
  <2>2. v \in Targets \cup {Leaf, Hole}
    OBVIOUS
  <2> QED
    BY <2>1, <2>2, GetFacts, PutKeepsType
<1>5. ASSUME NEW o \in Sources, GetSeen(o) PROVE TypeInv'
  <2>1. /\ Gets(o) /\ made' = Put(made, Top, seen[o]) /\ frames' = Advance(frames)
        /\ UNCHANGED <<history, seen, handed>> /\ o \in DOMAIN seen
    BY <1>5 DEF GetSeen, Known
  <2>2. seen[o] \in Targets \cup {Leaf, Hole}
    BY <2>1 DEF TypeInv, TypeOK
  <2> QED
    BY <2>1, <2>2, GetFacts, PutKeepsType
<1>6. ASSUME NEW o \in Sources, GetNew(o) PROVE TypeInv'
  <2>1. Gets(o) /\ Enter(o, calls, FALSE) /\ UNCHANGED <<history, handed>>
    BY <1>6 DEF GetNew
  <2>2. /\ frames # << >> /\ Reads(Top) /\ graph[Top.of][Top.next] \in {o, Active}
        /\ Top \in Frame
    BY <2>1, GetFacts
  <2>3. calls' = calls /\ calls \in Nat /\ calls >= 1
    <3>1. calls \in Nat /\ MadeType
      BY MarshalAssumption DEF TypeInv, TypeOK, MadeType
    <3>2. made[Top.to].call \in 1 .. calls
      <4>1. Top.to \in Targets
        BY <2>2 DEF Frame
      <4>2. made[Top.to] \in [of : Sources, slots : Seq(Targets \cup {Leaf, Hole}), call : 1 .. calls]
        BY <3>1, <4>1, SeqElement DEF MadeType, Targets
      <4> QED
        BY <4>2
    <3> QED
      BY <2>1, <3>1, <3>2 DEF history
  <2>4. /\ calls' <= begun' /\ begun' \in 0 .. MaxCalls /\ disturbed' \subseteq 1 .. calls'
        /\ UNCHANGED <<toPerl, graph, croaked, handed>>
    BY <2>1, <2>3 DEF history, TypeInv, TypeOK
  <2>5. calls' \in Nat /\ calls' >= 1 /\ calls' >= calls /\ Enter(o, calls', FALSE)
    BY <2>1, <2>3 DEF Enter
  <2> QED
    BY <2>2, <2>4, <2>5, EnterKeepsType
<1>7. ASSUME Return PROVE TypeInv'
  <2> DEFINE n == Len(frames) - 1
  <2>1. /\ n \in 1 .. Len(frames)
        /\ Below \in Seq(Frame) /\ Len(Below) = n
        /\ \A i \in 1 .. n : Below[i] = frames[i]
        /\ Reads(frames[n]) /\ Top.to \in Targets \cup {Leaf, Hole}
    BY <1>7, ReturnFacts
  <2>2. /\ made' = Put(made, frames[n], Top.to) /\ frames' = Advance(Below)
        /\ UNCHANGED <<history, seen, handed>>
    BY <1>7 DEF Return
  <2> HIDE DEF n
  <2> QED
    BY <2>1, <2>2, PutKeepsType
<1>8. ASSUME ReturnToCaller PROVE TypeInv'
  <2>1. frames \in Seq(Frame) /\ frames # << >> /\ frames' = SubSeq(frames, 1, Len(frames) - 1)
    BY <1>8 DEF ReturnToCaller, AtEnd, Below, TypeInv, TypeOK
  <2>2. Len(frames) \in 1 .. Len(frames) /\ Top.to \in Targets
    BY <2>1, BelowFacts DEF Frame
  <2>3. handed' \subseteq Targets /\ seen' = << >> /\ croaked' \in BOOLEAN
        /\ UNCHANGED <<toPerl, graph, made, calls, begun, disturbed>>
    BY <1>8, <2>2 DEF ReturnToCaller, TypeInv, TypeOK, SeenAfter, history
  <2> QED
    BY <2>1, <2>2, <2>3, CutKeepsType
<1>9. ASSUME Croak PROVE TypeInv'
  <2>1. PICK i \in DOMAIN frames : frames' = SubSeq(frames, 1, i - 1)
    BY <1>9 DEF Croak
  <2>2. i \in 1 .. Len(frames)
    BY DEF TypeInv, TypeOK
  <2>3. handed' \subseteq Targets /\ seen' = seen /\ croaked' \in BOOLEAN
        /\ UNCHANGED <<toPerl, graph, made, calls, begun, disturbed>>
    BY <1>9 DEF Croak, TypeInv, TypeOK, history
  <2> QED
    BY <2>1, <2>2, <2>3, CutKeepsType
<1>10. CASE UNCHANGED vars
  BY <1>10 DEF vars, TypeInv, TypeOK, StackInv, Reads, Targets, Frame
<1> QED
  BY <1>1, <1>2, <1>3, <1>4, <1>5, <1>6, <1>7, <1>8, <1>9, <1>10 DEF Next, Step

\* Whatever the structures, whatever code runs in the middle and wherever a conversion
\* dies, the C stack is one of calls and of slots that are being filled, and every
\* target in the map has been made (pl_duk.c:79, 130, 221, 252).
THEOREM MarshalTypeCorrect == Spec => []TypeOK
<1>1. Spec => []TypeInv
  BY InitType, NextType, PTL DEF Spec
<1> QED
  BY <1>1, PTL DEF TypeInv

-----------------------------------------------------------------------------
(* What is being made, and what is made.                                   *)

\* The value v is what a slot that held w, or its code, gives.
Fits(v, w) ==
  \/ w = Active
  \/ w \in {Leaf, Hole} /\ v = w
  \/ v \in Targets /\ made[v].of = w

\* The target of a frame has the slots that come before the frame's.
WorkInv ==
  /\ \A i \in DOMAIN frames :
       /\ made[frames[i].to].of = frames[i].of
       /\ made[frames[i].to].call = calls
       /\ Len(made[frames[i].to].slots) = frames[i].next - 1
  /\ \A i, j \in DOMAIN frames : frames[i].to = frames[j].to => i = j

GoodSlot(t, i, v) ==
  /\ i <= Len(graph[made[t].of]) /\ (toPerl \/ graph[made[t].of][i] # Hole)
  /\ Fits(v, graph[made[t].of][i])
  /\ v \in Targets /\ ~croaked => made[v].call = made[t].call

SlotsInv ==
  \A t \in Targets : \A i \in 1 .. Len(made[t].slots) : GoodSlot(t, i, made[t].slots[i])

NoneLeft(t) ==
  LET o == made[t].of
      n == Len(made[t].slots) + 1
  IN ~(n <= Len(graph[o]) /\ (toPerl \/ graph[o][n] # Hole))

\* A target that no frame works on has all its slots, until something croaks.
DoneInv == ~croaked => \A t \in Targets : (\A i \in DOMAIN frames : frames[i].to # t) => NoneLeft(t)

SeenInv ==
  /\ \A o \in DOMAIN seen : made[seen[o]].of = o
  /\ ~croaked => /\ \A o \in DOMAIN seen : made[seen[o]].call = calls
                 /\ frames = << >> => DOMAIN seen = {}

\* As long as no code was run, the map has all that the call has made.
OnceInv ==
  /\ SharedOnce
  /\ frames # << >> /\ calls \notin disturbed =>
       /\ \A t \in Targets : made[t].call = calls =>
            made[t].of \in DOMAIN seen /\ seen[made[t].of] = t
       /\ \A i \in 2 .. Len(frames) : ~frames[i].root

MadeInv == TypeInv /\ WorkInv /\ SlotsInv /\ DoneInv /\ SeenInv /\ OnceInv

LEMMA MadeTypes ==
  ASSUME TypeOK, NEW t \in Targets
  PROVE  /\ made[t].of \in Sources
         /\ made[t].slots \in Seq(Targets \cup {Leaf, Hole})
         /\ Len(made[t].slots) \in Nat
         /\ made[t].call \in 1 .. calls
         /\ graph[made[t].of] \in Seq(Value) /\ Len(graph[made[t].of]) \in Nat
<1>1. made[t] \in [of : Sources, slots : Seq(Targets \cup {Leaf, Hole}), call : 1 .. calls]
  BY SeqElement DEF TypeOK, Targets
<1>2. made[t].of \in Sources /\ made[t].slots \in Seq(Targets \cup {Leaf, Hole}) /\ made[t].call \in 1 .. calls
  BY <1>1
<1>3. graph[made[t].of] \in Seq(Value)
  BY <1>2 DEF TypeOK
<1> QED
  BY <1>2, <1>3

LEMMA FrameTypes ==
  ASSUME TypeOK, NEW i \in 1 .. Len(frames)
  PROVE  /\ frames[i] \in Frame /\ frames[i].to \in Targets /\ frames[i].of \in Sources
         /\ frames[i].next \in Nat /\ frames[i].next >= 1
         /\ Len(frames) \in Nat /\ DOMAIN frames = 1 .. Len(frames)
<1>1. frames \in Seq(Frame)
  BY DEF TypeOK
<1>2. frames[i] \in Frame
  BY <1>1, SeqElement
<1> QED
  BY <1>1, <1>2 DEF Frame

\* Steps that put v into the target of the top frame of fs.
LEMMA PutKeepsMade ==
  ASSUME MadeInv, NEW n \in 1 .. Len(frames), NEW fs \in Seq(Frame),
         Len(fs) = n, \A i \in 1 .. n : fs[i] = frames[i],
         Reads(frames[n]), NEW v \in Targets \cup {Leaf, Hole},
         v \in Targets /\ ~croaked => made[v].call = calls,
         Fits(v, graph[frames[n].of][frames[n].next]),
         ~croaked => \A t \in Targets : (\A i \in 1 .. n : frames[i].to # t) => NoneLeft(t),
         made' = Put(made, frames[n], v), frames' = Advance(fs),
         UNCHANGED <<history, seen, handed>>
  PROVE  MadeInv'
<1> DEFINE F == frames[n]
           T == frames[n].to
<1>0. TypeOK /\ TypeInv /\ n \in Nat /\ n >= 1
  BY DEF MadeInv, TypeInv, TypeOK
<1>1. TypeInv'
  BY <1>0, PutKeepsType
<1>2. F \in Frame /\ T \in Targets /\ F.next \in Nat /\ F.next >= 1 /\ F.of \in Sources
  BY <1>0, FrameTypes
<1>3. DOMAIN frames = 1 .. Len(frames) /\ Len(frames) \in Nat
  BY <1>0, FrameTypes
<1>4. F.next <= MaxSlots
  BY <1>0, <1>2, ReadsIsSlot
<1>5. /\ Len(frames') = n /\ DOMAIN frames' = 1 .. n
      /\ \A i \in 1 .. n : /\ frames'[i].of = frames[i].of
                           /\ frames'[i].to = frames[i].to
                           /\ frames'[i].root = frames[i].root
                           /\ frames'[i].next = IF i = n THEN frames[i].next + 1 ELSE frames[i].next
  <2>1. fs # << >> /\ fs[Len(fs)].next <= MaxSlots
    BY <1>0, <1>4
  <2>2. frames' \in Seq(Frame)
    BY <2>1, AdvanceFacts
  <2> QED
    BY <2>1, <2>2, AdvanceFacts
<1>6. /\ Len(made') = Len(made) /\ Targets' = Targets
      /\ \A t \in Targets : /\ made'[t].of = made[t].of
                            /\ made'[t].call = made[t].call
                            /\ t # T => made'[t].slots = made[t].slots
      /\ made'[T].slots = Append(made[T].slots, v)
  <2>1. made' = Put(made, F, v) /\ F.to = T /\ T \in Targets
    BY <1>2
  <2> HIDE DEF F, T
  <2>2. /\ Len(made') = Len(made)
        /\ \A t \in Targets : /\ made'[t].of = made[t].of
                              /\ made'[t].call = made[t].call
                              /\ t # T => made'[t].slots = made[t].slots
        /\ made'[T].slots = Append(made[T].slots, v)
    BY ONLY <1>0, <2>1, v \in Targets \cup {Leaf, Hole}, PutFacts, Zenon
  <2> QED
    BY <2>2 DEF Targets
<1>7. /\ made[T].of = F.of /\ made[T].call = calls /\ Len(made[T].slots) = F.next - 1
  BY <1>3 DEF MadeInv, WorkInv
<1>8. /\ made[T].slots \in Seq(Targets \cup {Leaf, Hole})
      /\ Len(made'[T].slots) = F.next
      /\ \A i \in 1 .. F.next - 1 : made'[T].slots[i] = made[T].slots[i]
      /\ made'[T].slots[F.next] = v
  <2>1. made[T].slots \in Seq(Targets \cup {Leaf, Hole})
    BY <1>0, <1>2, MadeTypes
  <2> DEFINE sl == made[T].slots
  <2>2. /\ Len(Append(sl, v)) = Len(sl) + 1
        /\ \A i \in 1 .. Len(sl) : Append(sl, v)[i] = sl[i]
        /\ Append(sl, v)[Len(sl) + 1] = v
    <3>1. sl \in Seq(Targets \cup {Leaf, Hole})
      BY <2>1
    <3> HIDE DEF sl
    <3> QED
      BY ONLY <3>1, SeqAppend
  <2>3. Len(made[T].slots) = F.next - 1 /\ Len(made[T].slots) + 1 = F.next
    BY <1>2, <1>7
  <2>4. made'[T].slots = Append(made[T].slots, v)
    BY <1>6
  <2> HIDE DEF F, T
  <2> QED
    BY <2>1, <2>2, <2>3, <2>4
<1>9. \A i \in 1 .. n : i # n => frames[i].to # T
  BY <1>3 DEF MadeInv, WorkInv
<1>10. UNCHANGED <<toPerl, graph, calls, begun, disturbed, croaked, seen>>
  BY DEF history
<1>11. ASSUME NEW t \in Targets, NEW i, NEW x, GoodSlot(t, i, x)
       PROVE  GoodSlot(t, i, x)'
  <2>1. made'[t].of = made[t].of /\ made'[t].call = made[t].call
    BY <1>6
  <2>2. x \in Targets' => /\ x \in Targets
                          /\ made'[x].of = made[x].of /\ made'[x].call = made[x].call
    BY <1>6
  <2>3. Targets' = Targets
    BY <1>6
  <2>4. UNCHANGED <<toPerl, graph, croaked>>
    BY <1>10
  <2> QED
    BY ONLY GoodSlot(t, i, x), <2>1, <2>2, <2>3, <2>4 DEF GoodSlot, Fits
<1>12. WorkInv'
  <2>1. ASSUME NEW i \in 1 .. n
        PROVE  /\ made'[frames'[i].to].of = frames'[i].of
               /\ made'[frames'[i].to].call = calls'
               /\ Len(made'[frames'[i].to].slots) = frames'[i].next - 1
    <3>1. i \in DOMAIN frames /\ frames[i].to \in Targets
      BY <1>0, <1>3, FrameTypes
    <3>2. /\ made[frames[i].to].of = frames[i].of
          /\ made[frames[i].to].call = calls
          /\ Len(made[frames[i].to].slots) = frames[i].next - 1
      BY <3>1 DEF MadeInv, WorkInv
    <3>3. CASE i = n
      <4>1. frames'[n].next = F.next + 1
        BY <1>0, <1>5
      <4>2. frames'[i].next - 1 = F.next
        BY <1>2, <3>3, <4>1
      <4>3. frames'[i].to = T /\ frames'[i].of = F.of
        BY <1>5, <3>3
      <4>4. made'[T].of = F.of /\ made'[T].call = calls
        BY <1>2, <1>6, <1>7
      <4> HIDE DEF F, T
      <4> QED
        BY <1>8, <1>10, <4>2, <4>3, <4>4
    <3>4. CASE i # n
      <4>1. frames[i].to # T
        BY <1>9, <3>4
      <4>2. frames'[i].to = frames[i].to /\ frames'[i].of = frames[i].of
            /\ frames'[i].next = frames[i].next /\ calls' = calls
        BY <1>5, <1>10, <3>4
      <4>3. made'[frames[i].to].of = made[frames[i].to].of
            /\ made'[frames[i].to].call = made[frames[i].to].call
            /\ made'[frames[i].to].slots = made[frames[i].to].slots
        BY <1>6, <3>1, <4>1
      <4> QED
        BY ONLY <3>2, <4>2, <4>3
    <3> QED
      BY <3>3, <3>4
  <2>2. \A i, j \in 1 .. n : frames'[i].to = frames'[j].to => i = j
    <3>1. \A i \in 1 .. n : i \in DOMAIN frames
      BY <1>0, <1>3
    <3> QED
      BY <1>5, <3>1 DEF MadeInv, WorkInv
  <2> QED
    BY <1>5, <2>1, <2>2 DEF WorkInv
<1>13. SlotsInv'
  <2>1. ASSUME NEW t \in Targets, NEW i \in 1 .. Len(made'[t].slots)
        PROVE  GoodSlot(t, i, made'[t].slots[i])
    <3>1. CASE t = T
      <4>1. i \in 1 .. F.next
        BY <1>8, <3>1
      <4>2. CASE i = F.next
        <5>1. made'[t].slots[i] = v
          BY <1>8, <3>1, <4>2
        <5>2. GoodSlot(T, F.next, v)
          BY <1>7 DEF GoodSlot, Reads
        <5> QED
          BY <3>1, <4>2, <5>1, <5>2
      <4>3. CASE i # F.next
        <5>1. i \in 1 .. F.next - 1
          BY <1>2, <4>1, <4>3
        <5>2. i \in 1 .. Len(made[T].slots) /\ made'[t].slots[i] = made[T].slots[i]
          BY <1>7, <1>8, <3>1, <5>1
        <5> QED
          BY <1>2, <3>1, <5>2 DEF MadeInv, SlotsInv
      <4> QED
        BY <4>2, <4>3
    <3>2. CASE t # T
      <4>1. made'[t].slots = made[t].slots
        BY <1>6, <3>2
      <4> QED
        BY <4>1 DEF MadeInv, SlotsInv
    <3> QED
      BY <3>1, <3>2
  <2>2. ASSUME NEW t \in Targets, NEW i \in 1 .. Len(made'[t].slots)
        PROVE  GoodSlot(t, i, made[t].slots[i])'
    <3>1. PICK x : x = made'[t].slots[i]
      OBVIOUS
    <3>2. GoodSlot(t, i, x)
      BY <2>1, <3>1
    <3>3. GoodSlot(t, i, x)'
      BY <1>11, <3>2
    <3> QED
      BY <3>1, <3>3 DEF GoodSlot, Fits
  <2> QED
    BY <1>6, <2>2 DEF SlotsInv
<1>14. DoneInv'
  <2>1. ASSUME ~croaked, NEW t \in Targets, \A i \in 1 .. n : frames'[i].to # t
        PROVE  NoneLeft(t)'
    <3>1. t # T /\ NoneLeft(t)
      BY <1>0, <1>5, <2>1
    <3> QED
      BY <1>6, <1>10, <3>1 DEF NoneLeft
  <2> QED
    BY <1>5, <1>6, <1>10, <2>1 DEF DoneInv
<1>15. SeenInv'
  <2>1. frames' # << >>
    BY <1>0, <1>5
  <2>2. ASSUME NEW o \in DOMAIN seen
        PROVE  made'[seen[o]].of = o /\ (~croaked => made'[seen[o]].call = calls)
    <3>1. seen[o] \in Targets /\ made[seen[o]].of = o
      BY <1>0 DEF MadeInv, SeenInv, TypeOK
    <3>2. ~croaked => made[seen[o]].call = calls
      BY DEF MadeInv, SeenInv
    <3> QED
      BY <1>6, <3>1, <3>2
  <2> QED
    BY <1>10, <2>1, <2>2 DEF SeenInv
<1>16. OnceInv'
  <2>1. SharedOnce'
    <3>1. SharedOnce
      BY DEF MadeInv, OnceInv
    <3>2. /\ Targets' = Targets /\ disturbed' = disturbed
          /\ \A t \in Targets : made'[t].of = made[t].of /\ made'[t].call = made[t].call
      BY <1>6, <1>10
    <3> QED
      BY ONLY <3>1, <3>2 DEF SharedOnce
  <2>2. frames # << >> /\ \A i \in 2 .. n : i \in 2 .. Len(frames)
    BY <1>0, <1>3
  <2>3. \A i \in 2 .. n : frames'[i].root = frames[i].root
    BY <1>0, <1>5
  <2>4. ASSUME calls \notin disturbed
        PROVE  /\ \A t \in Targets : made'[t].call = calls =>
                    made'[t].of \in DOMAIN seen /\ seen[made'[t].of] = t
               /\ \A i \in 2 .. n : ~frames'[i].root
    BY <1>6, <2>2, <2>3, <2>4 DEF MadeInv, OnceInv
  <2> QED
    BY <1>5, <1>6, <1>10, <2>1, <2>4 DEF OnceInv
<1> QED
  BY <1>1, <1>12, <1>13, <1>14, <1>15, <1>16 DEF MadeInv

\* What is made stays as it is when more is made.
LEMMA OldSlotsStay ==
  ASSUME TypeOK, SlotsInv, Targets \subseteq Targets', UNCHANGED <<toPerl, graph, croaked>>,
         \A t \in Targets : made'[t] = made[t]
  PROVE  \A t \in Targets : \A i \in 1 .. Len(made'[t].slots) : GoodSlot(t, i, made[t].slots[i])'
<1> SUFFICES ASSUME NEW t \in Targets, NEW i \in 1 .. Len(made'[t].slots)
             PROVE  GoodSlot(t, i, made[t].slots[i])'
  OBVIOUS
<1> DEFINE x == made[t].slots[i]
<1>1. made'[t] = made[t] /\ made'[t].slots[i] = x
  OBVIOUS
<1>2. GoodSlot(t, i, x)
  BY <1>1 DEF SlotsInv
<1>3. x \in Targets \cup {Leaf, Hole}
  BY <1>1, MadeTypes, SeqElement
<1>4. x \in Targets' => x \in Targets
  <2>1. Targets' \subseteq Nat /\ Leaf = 0 /\ Hole = -1
    BY DEF Targets, Leaf, Hole
  <2>2. 0 \notin Targets' /\ -1 \notin Targets'
    BY DEF Targets
  <2> QED
    BY <1>3, <2>1, <2>2
<1> HIDE DEF x
<1>5. Fits(x, graph[made[t].of][i]) /\ (x \in Targets /\ ~croaked => made[x].call = made[t].call)
  BY <1>2 DEF GoodSlot
<1>6. \A w : Fits(x, w) => \/ w = Active
                           \/ w \in {Leaf, Hole} /\ x = w
                           \/ x \in Targets' /\ made'[x].of = w
  BY DEF Fits
<1>7. \/ graph'[made'[t].of][i] = Active
      \/ graph'[made'[t].of][i] \in {Leaf, Hole} /\ x = graph'[made'[t].of][i]
      \/ x \in Targets' /\ made'[x].of = graph'[made'[t].of][i]
  BY <1>1, <1>5, <1>6
<1>8. x \in Targets' /\ ~croaked' => made'[x].call = made'[t].call
  BY <1>1, <1>4, <1>5
<1>9. i <= Len(graph'[made'[t].of]) /\ (toPerl' \/ graph'[made'[t].of][i] # Hole)
  BY <1>1, <1>2 DEF GoodSlot
<1> QED
  BY <1>1, <1>7, <1>8, <1>9 DEF GoodSlot, Fits

\* Steps that enter a source.
LEMMA EnterKeepsMade ==
  ASSUME MadeInv, NEW o \in Sources, NEW root \in BOOLEAN, o \notin DOMAIN seen,
         calls' \in Nat, calls' >= 1, calls' >= calls, calls' <= begun', begun' \in 0 .. MaxCalls,
         disturbed' \subseteq 1 .. calls', UNCHANGED <<toPerl, graph, croaked, handed>>,
         Enter(o, calls', root),
         frames = << >> => root,
         ~root => Reads(Top) /\ graph[Top.of][Top.next] \in {o, Active},
         frames = << >> => calls' = calls + 1, frames # << >> => calls' = calls,
         disturbed \subseteq disturbed', root /\ frames # << >> => calls \in disturbed'
  PROVE  MadeInv'
<1> DEFINE k == Len(frames)
           new == Len(made) + 1
<1>0. TypeOK /\ TypeInv /\ calls \in Nat
  BY MarshalAssumption DEF MadeInv, TypeInv, TypeOK
<1>1. TypeInv'
  BY <1>0, EnterKeepsType
<1>2. /\ Len(made) \in Nat /\ Len(made') = Len(made) + 1
      /\ \A t \in Targets : made'[t] = made[t]
      /\ made'[new] = [of |-> o, slots |-> << >>, call |-> calls']
      /\ k \in Nat /\ Len(frames') = k + 1
      /\ \A i \in DOMAIN frames : frames'[i] = frames[i]
      /\ frames'[k + 1] = [of |-> o, to |-> Len(made) + 1, next |-> 1, root |-> root]
      /\ frames' \in Seq([of : Sources, to : 1 .. Len(made'), next : 1 .. MaxSlots + 1, root : BOOLEAN])
  BY <1>0, EnterFacts
<1>a. Len(made) \in Nat /\ Len(made') = Len(made) + 1
  BY <1>2
<1>b. k \in Nat /\ Len(frames') = k + 1 /\ DOMAIN frames' = 1 .. k + 1 /\ DOMAIN frames = 1 .. k
  BY <1>0, <1>2 DEF TypeOK
<1>c. /\ made'[new].of = o /\ made'[new].call = calls' /\ made'[new].slots = << >>
      /\ frames'[k + 1].of = o /\ frames'[k + 1].to = new
      /\ frames'[k + 1].next = 1 /\ frames'[k + 1].root = root
  BY <1>2
<1>3. Targets' = Targets \cup {new} /\ new \in Targets' /\ new \notin Targets
  BY ONLY <1>a DEF Targets
<1>4. \A i \in 1 .. k : frames'[i] = frames[i] /\ frames[i].to \in Targets
  BY <1>0, <1>b, <1>2, FrameTypes
<1>5. \A t \in Targets : made'[t] = made[t]
  BY <1>2
<1>6. /\ DOMAIN seen' = DOMAIN seen \cup {o}
      /\ seen'[o] = new
      /\ \A p \in DOMAIN seen : seen'[p] = seen[p] /\ seen[p] \in Targets
  BY <1>0 DEF Enter, Remember, TypeOK
<1>7. \A i \in 1 .. k + 1 : i = k + 1 \/ (i \in 1 .. k /\ k >= 1)
  BY <1>b
<1>8. k >= 1 => frames # << >> /\ calls' = calls
  BY <1>b
<1> HIDE DEF k, new
<1>9. WorkInv'
  <2>1. \A i \in 1 .. k + 1 :
          /\ made'[frames'[i].to].of = frames'[i].of
          /\ made'[frames'[i].to].call = calls'
          /\ Len(made'[frames'[i].to].slots) = frames'[i].next - 1
    <3>1. ASSUME NEW i \in 1 .. k, k >= 1
          PROVE  /\ made'[frames'[i].to].of = frames'[i].of
                 /\ made'[frames'[i].to].call = calls'
                 /\ Len(made'[frames'[i].to].slots) = frames'[i].next - 1
      BY <1>b, <1>4, <1>5, <1>8, <3>1 DEF MadeInv, WorkInv
    <3>2. Len(<< >>) = 1 - 1
      OBVIOUS
    <3> QED
      BY <1>7, <1>c, <3>1, <3>2
  <2>2. \A i, j \in 1 .. k + 1 : frames'[i].to = frames'[j].to => i = j
    <3>1. \A i, j \in 1 .. k : frames'[i].to = frames'[j].to => i = j
      BY <1>b, <1>4 DEF MadeInv, WorkInv
    <3>2. \A i \in 1 .. k : frames'[i].to # new
      BY <1>3, <1>4
    <3> QED
      BY <1>7, <1>c, <3>1, <3>2
  <2> QED
    BY <1>b, <2>1, <2>2 DEF WorkInv
<1>10. SlotsInv'
  <2>1. \A t \in Targets : \A i \in 1 .. Len(made'[t].slots) : GoodSlot(t, i, made[t].slots[i])'
    BY <1>0, <1>3, <1>5, OldSlotsStay DEF MadeInv
  <2>2. 1 .. Len(made'[new].slots) = {}
    BY <1>c
  <2> QED
    BY <1>3, <2>1, <2>2 DEF SlotsInv
<1>11. DoneInv'
  <2>1. ASSUME ~croaked', NEW t \in Targets', \A i \in DOMAIN frames' : frames'[i].to # t
        PROVE  NoneLeft(t)'
    <3>1. t \in Targets
      BY <1>3, <1>b, <1>c, <2>1
    <3>2. NoneLeft(t)
      BY <1>b, <1>4, <2>1, <3>1 DEF MadeInv, DoneInv
    <3> QED
      BY <1>5, <3>1, <3>2 DEF NoneLeft
  <2> QED
    BY <2>1 DEF DoneInv
<1>12. SeenInv'
  <2>1. ASSUME NEW p \in DOMAIN seen'
        PROVE  made'[seen'[p]].of = p /\ (~croaked' => made'[seen'[p]].call = calls')
    <3>1. CASE p = o
      BY <1>c, <1>6, <3>1
    <3>2. CASE p # o
      <4>1. /\ p \in DOMAIN seen /\ seen'[p] = seen[p] /\ seen[p] \in Targets
            /\ ~croaked => frames # << >>
        BY <1>6, <3>2 DEF MadeInv, SeenInv
      <4> QED
        BY <1>5, <4>1 DEF MadeInv, SeenInv
    <3> QED
      BY <3>1, <3>2
  <2>2. frames' # << >>
    BY <1>b
  <2> QED
    BY <2>1, <2>2 DEF SeenInv
<1>13. OnceInv'
  <2>1. ASSUME calls' \notin disturbed', NEW t \in Targets, made[t].call = calls'
        PROVE  /\ frames # << >> /\ calls \notin disturbed /\ made[t].call = calls
               /\ made[t].of \in DOMAIN seen /\ seen[made[t].of] = t
    <3>1. made[t].call \in 1 .. calls
      BY <1>0, MadeTypes
    <3>2. frames # << >>
      BY <1>0, <2>1, <3>1
    <3> QED
      BY <2>1, <3>2 DEF MadeInv, OnceInv
  <2>2. SharedOnce'
    <3> SUFFICES ASSUME NEW t \in Targets', NEW u \in Targets',
                        made'[t].call = made'[u].call, made'[t].call \notin disturbed',
                        made'[t].of = made'[u].of
                 PROVE  t = u
      BY DEF SharedOnce
    <3>1. CASE t \in Targets /\ u \in Targets
      BY <1>5, <3>1 DEF MadeInv, OnceInv, SharedOnce
    <3>2. CASE t \in Targets /\ u = new
      BY <1>5, <1>c, <2>1, <3>2
    <3>3. CASE u \in Targets /\ t = new
      BY <1>5, <1>c, <2>1, <3>3
    <3> QED
      BY <1>3, <3>1, <3>2, <3>3
  <2>3. ASSUME calls' \notin disturbed', NEW t \in Targets', made'[t].call = calls'
        PROVE  made'[t].of \in DOMAIN seen' /\ seen'[made'[t].of] = t
    <3>1. CASE t = new
      BY <1>c, <1>6, <3>1
    <3>2. CASE t \in Targets
      BY <1>5, <1>6, <2>1, <2>3, <3>2
    <3> QED
      BY <1>3, <3>1, <3>2
  <2>4. ASSUME calls' \notin disturbed', NEW i \in 2 .. Len(frames')
        PROVE  ~frames'[i].root
    <3>1. k >= 1 /\ (i = k + 1 \/ i \in 2 .. k)
      BY <1>b
    <3>2. frames # << >> /\ calls' = calls /\ calls \notin disturbed
      BY <1>8, <2>4, <3>1
    <3>3. CASE i = k + 1
      BY <1>c, <2>4, <3>2, <3>3
    <3>4. CASE i \in 2 .. k
      <4>1. i \in 2 .. Len(frames) /\ i \in 1 .. k
        BY <1>b, <3>4 DEF k
      <4> QED
        BY <1>4, <3>2, <4>1 DEF MadeInv, OnceInv
    <3> QED
      BY <3>1, <3>3, <3>4
  <2> QED
    BY <2>2, <2>3, <2>4 DEF OnceInv
<1> QED
  BY <1>1, <1>9, <1>10, <1>11, <1>12, <1>13 DEF MadeInv

\* A conversion that ends, its frame if it has one with it, and clears the map.
LEMMA EndKeepsMade ==
  ASSUME MadeInv, TypeInv', seen' = << >>,
         UNCHANGED <<toPerl, graph, croaked, made>>, calls' >= calls, disturbed \subseteq disturbed',
         NEW n \in Nat, n <= Len(frames), Len(frames') = n,
         \A i \in 1 .. n : frames'[i] = frames[i],
         n > 0 => calls' = calls /\ calls \in disturbed',
         ~croaked => \A t \in Targets : (\A i \in 1 .. n : frames[i].to # t) => NoneLeft(t)
  PROVE  MadeInv'
<1>0. TypeOK /\ TypeOK' /\ Targets' = Targets
  BY DEF MadeInv, TypeInv, Targets
<1>1. /\ DOMAIN frames = 1 .. Len(frames) /\ Len(frames) \in Nat
      /\ DOMAIN frames' = 1 .. n
      /\ \A i \in 1 .. n : i \in DOMAIN frames /\ n > 0
  BY <1>0 DEF TypeOK
<1>2. WorkInv'
  BY <1>1 DEF MadeInv, WorkInv
<1>3. SlotsInv'
  <2>1. \A t \in Targets : \A i \in 1 .. Len(made'[t].slots) : GoodSlot(t, i, made[t].slots[i])'
    BY <1>0, OldSlotsStay DEF MadeInv
  <2> QED
    BY <1>0, <2>1 DEF SlotsInv
<1>4. DoneInv'
  BY <1>0, <1>1 DEF DoneInv, NoneLeft
<1>5. SeenInv'
  <2>1. DOMAIN seen' = {}
    OBVIOUS
  <2> QED
    BY <2>1 DEF SeenInv
<1>6. OnceInv'
  <2>1. SharedOnce'
    BY <1>0 DEF MadeInv, OnceInv, SharedOnce
  <2>2. frames' # << >> => calls' \in disturbed'
    BY <1>0, <1>1 DEF TypeOK
  <2> QED
    BY <2>1, <2>2 DEF OnceInv
<1> QED
  BY <1>2, <1>3, <1>4, <1>5, <1>6 DEF MadeInv

\* A call that ends at once.
LEMMA AtOnceKeepsMade ==
  ASSUME MadeInv, TypeInv', Called, seen' = << >>, UNCHANGED <<made, frames>>
  PROVE  MadeInv'
<1>1. /\ calls' >= calls /\ UNCHANGED <<toPerl, graph, croaked>>
      /\ frames # << >> => calls' = calls /\ calls \in disturbed'
  BY CalledFacts DEF MadeInv
<1>2. disturbed \subseteq disturbed'
  BY DEF Called
<1>3. frames \in Seq(Frame) /\ Len(frames) \in Nat /\ DOMAIN frames = 1 .. Len(frames)
      /\ (Len(frames) > 0 => frames # << >>)
  BY DEF MadeInv, TypeInv, TypeOK
<1> DEFINE n == Len(frames)
<1>4. ~croaked => \A t \in Targets : (\A i \in 1 .. n : frames[i].to # t) => NoneLeft(t)
  BY <1>3 DEF MadeInv, DoneInv
<1>5. /\ n \in Nat /\ n <= Len(frames) /\ Len(frames') = n
      /\ \A i \in 1 .. n : frames'[i] = frames[i]
  BY <1>3
<1>6. n > 0 => calls' = calls /\ calls \in disturbed'
  BY <1>1, <1>3
<1> HIDE DEF n
<1> QED
  BY <1>1, <1>2, <1>4, <1>5, <1>6, EndKeepsMade

\* When the top frame is at its end, so is its target.
LEMMA TopIsDone ==
  ASSUME MadeInv, AtEnd, ~croaked
  PROVE  \A t \in Targets : (\A i \in 1 .. Len(frames) - 1 : frames[i].to # t) => NoneLeft(t)
<1>1. frames \in Seq(Frame) /\ frames # << >> /\ ~Reads(Top)
  BY DEF MadeInv, TypeInv, TypeOK, AtEnd, HasSlot, Reads, Slot
<1>2. /\ Len(frames) \in Nat /\ Len(frames) >= 1 /\ Top = frames[Len(frames)] /\ Top \in Frame
  BY <1>1, BelowFacts
<1>3. DOMAIN frames = 1 .. Len(frames) /\ Len(frames) \in DOMAIN frames
  BY <1>1, <1>2
<1>4. /\ made[Top.to].of = Top.of /\ Len(made[Top.to].slots) = Top.next - 1
      /\ Top.next \in Nat
  BY <1>2, <1>3, MarshalAssumption DEF MadeInv, WorkInv, Frame
<1>5. NoneLeft(Top.to)
  <2>1. Len(made[Top.to].slots) + 1 = Top.next
    BY <1>4
  <2> QED
    BY <1>1, <1>4, <2>1 DEF NoneLeft, Reads
<1>6. ASSUME NEW t \in Targets, \A i \in 1 .. Len(frames) - 1 : frames[i].to # t, t # Top.to
      PROVE  NoneLeft(t)
  <2>1. \A i \in DOMAIN frames : i = Len(frames) \/ i \in 1 .. Len(frames) - 1
    BY <1>2, <1>3
  <2> QED
    BY <1>2, <1>6, <2>1 DEF MadeInv, DoneInv
<1> QED
  BY <1>5, <1>6

LEMMA InitMade == Init => MadeInv
<1> SUFFICES ASSUME Init PROVE MadeInv
  OBVIOUS
<1>1. Targets = {} /\ DOMAIN frames = {} /\ DOMAIN seen = {} /\ frames = << >>
  BY DEF Init, Targets
<1> QED
  BY <1>1, InitType DEF MadeInv, WorkInv, SlotsInv, DoneInv, SeenInv, OnceInv, SharedOnce

\* A croak takes frames away, and leaves targets as they are.
LEMMA CroakKeepsMade ==
  ASSUME MadeInv, TypeInv', Croak
  PROVE  MadeInv'
<1>1. /\ UNCHANGED <<toPerl, graph, calls, begun, disturbed, made, seen, handed>>
      /\ croaked' = TRUE /\ Targets' = Targets
  BY DEF Croak, Targets
<1>2. PICK n \in DOMAIN frames : frames[n].root /\ frames' = SubSeq(frames, 1, n - 1)
  BY DEF Croak
<1>3. /\ frames \in Seq(Frame) /\ Len(frames) \in Nat
      /\ DOMAIN frames = 1 .. Len(frames) /\ n \in 1 .. Len(frames)
  BY DEF MadeInv, TypeInv, TypeOK
<1>4. /\ Len(frames') = n - 1 /\ DOMAIN frames' = 1 .. n - 1
      /\ \A i \in 1 .. n - 1 : frames'[i] = frames[i] /\ i \in DOMAIN frames
  <2>1. frames' \in Seq(Frame) /\ Len(frames') = n - 1
        /\ \A i \in 1 .. n - 1 : frames'[i] = frames[i]
    BY <1>2, <1>3, SeqCut
  <2> QED
    BY <1>3, <2>1
<1>5. WorkInv'
  BY <1>1, <1>4 DEF MadeInv, WorkInv
<1>6. SlotsInv'
  <2>1. \A t \in Targets : \A i, x : GoodSlot(t, i, x) => GoodSlot(t, i, x)'
    BY <1>1 DEF GoodSlot, Fits
  <2>2. ASSUME NEW t \in Targets, NEW i \in 1 .. Len(made[t].slots)
        PROVE  GoodSlot(t, i, made[t].slots[i])'
    <3>1. PICK x : x = made[t].slots[i]
      OBVIOUS
    <3>2. GoodSlot(t, i, x)'
      BY <2>1, <3>1 DEF MadeInv, SlotsInv
    <3> QED
      BY <1>1, <3>1, <3>2 DEF GoodSlot, Fits
  <2> QED
    BY <1>1, <2>2 DEF SlotsInv
<1>7. DoneInv' /\ SeenInv'
  BY <1>1 DEF MadeInv, SeenInv, DoneInv
<1>8. OnceInv'
  <2>1. SharedOnce'
    BY <1>1 DEF MadeInv, OnceInv, SharedOnce
  <2>2. ASSUME calls \notin disturbed PROVE frames' = << >>
    <3>1. n \notin 2 .. Len(frames)
      BY <1>2, <1>3, <2>2 DEF MadeInv, OnceInv
    <3>2. n - 1 = 0
      BY <1>3, <3>1
    <3> QED
      BY <1>4, <3>2 DEF TypeInv, TypeOK
  <2> QED
    BY <1>1, <2>1, <2>2 DEF OnceInv
<1> QED
  BY <1>5, <1>6, <1>7, <1>8 DEF MadeInv

LEMMA NextMade == MadeInv /\ [Next]_vars => MadeInv'
<1> SUFFICES ASSUME MadeInv, [Next]_vars PROVE MadeInv'
  OBVIOUS
<1>0. TypeInv /\ TypeOK /\ TypeInv'
  BY NextType DEF MadeInv, TypeInv
<1>a. ~croaked => \A t \in Targets : (\A i \in 1 .. Len(frames) : frames[i].to # t) => NoneLeft(t)
  BY <1>0, SMTT(30) DEF MadeInv, DoneInv, TypeOK
<1>1. ASSUME NEW o \in Sources, ConvertSeen(o) PROVE MadeInv'
  BY <1>0, <1>1, AtOnceKeepsMade DEF ConvertSeen, SeenAfter
<1>2. ASSUME NEW o \in Sources, ConvertNew(o) PROVE MadeInv'
  <2>1. Called /\ Enter(o, calls', TRUE) /\ UNCHANGED handed /\ o \notin DOMAIN seen
    BY <1>2 DEF ConvertNew, Known
  <2>2. disturbed \subseteq disturbed'
    BY <2>1 DEF Called
  <2> QED
    BY <1>0, <2>1, <2>2, CalledFacts, EnterKeepsMade
<1>3. ASSUME ConvertOther PROVE MadeInv'
  BY <1>0, <1>3, AtOnceKeepsMade DEF ConvertOther, SeenAfter
<1>4. ASSUME NEW v \in {Leaf, Hole}, GetPlain(v) PROVE MadeInv'
  <2>1. /\ Gets(v) /\ made' = Put(made, Top, v) /\ frames' = Advance(frames)
        /\ UNCHANGED <<history, seen, handed>>
    BY <1>4 DEF GetPlain
  <2>2. v \in Targets \cup {Leaf, Hole} /\ v \notin Targets
    BY DEF Leaf, Hole, Targets
  <2>3. Fits(v, graph[Top.of][Top.next])
    BY <1>0, <2>1, GetFacts DEF Fits
  <2> QED
    BY <1>0, <1>a, <2>1, <2>2, <2>3, GetFacts, PutKeepsMade
<1>5. ASSUME NEW o \in Sources, GetSeen(o) PROVE MadeInv'
  <2>1. /\ Gets(o) /\ made' = Put(made, Top, seen[o]) /\ frames' = Advance(frames)
        /\ UNCHANGED <<history, seen, handed>> /\ o \in DOMAIN seen
    BY <1>5 DEF GetSeen, Known
  <2>2. seen[o] \in Targets /\ made[seen[o]].of = o /\ (~croaked => made[seen[o]].call = calls)
    BY <1>0, <2>1 DEF TypeOK, MadeInv, SeenInv
  <2>3. Fits(seen[o], graph[Top.of][Top.next])
    BY <1>0, <2>1, <2>2, GetFacts DEF Fits
  <2> QED
    BY <1>0, <1>a, <2>1, <2>2, <2>3, GetFacts, PutKeepsMade
<1>6. ASSUME NEW o \in Sources, GetNew(o) PROVE MadeInv'
  <2>1. Gets(o) /\ Enter(o, calls, FALSE) /\ UNCHANGED <<history, handed>> /\ o \notin DOMAIN seen
    BY <1>6 DEF GetNew, Known
  <2>2. /\ frames # << >> /\ Reads(Top) /\ graph[Top.of][Top.next] \in {o, Active}
        /\ Top \in Frame
    BY <1>0, <2>1, GetFacts
  <2>3. calls' = calls /\ calls \in Nat /\ calls >= 1
    <3>1. calls \in Nat
      BY <1>0, MarshalAssumption DEF TypeOK
    <3>2. made[Top.to].call \in 1 .. calls
      BY <1>0, <2>2, MadeTypes DEF Frame
    <3> QED
      BY <2>1, <3>1, <3>2 DEF history
  <2>4. /\ calls' <= begun' /\ begun' \in 0 .. MaxCalls /\ disturbed' \subseteq 1 .. calls'
        /\ UNCHANGED <<toPerl, graph, croaked, handed>> /\ disturbed' = disturbed
    BY <1>0, <2>1, <2>3 DEF history, TypeOK
  <2>5. calls' \in Nat /\ calls' >= 1 /\ calls' >= calls /\ Enter(o, calls', FALSE)
    BY <2>1, <2>3 DEF Enter
  <2> QED
    BY <2>1, <2>2, <2>3, <2>4, <2>5, EnterKeepsMade
<1>7. ASSUME Return PROVE MadeInv'
  <2> DEFINE n == Len(frames) - 1
  <2>1. /\ n \in 1 .. Len(frames)
        /\ Below \in Seq(Frame) /\ Len(Below) = n
        /\ \A i \in 1 .. n : Below[i] = frames[i]
        /\ Reads(frames[n]) /\ Top.to \in Targets
        /\ graph[frames[n].of][frames[n].next] \in {Top.of, Active}
        /\ Top = frames[n + 1]
    BY <1>0, <1>7, ReturnFacts
  <2>2. /\ made' = Put(made, frames[n], Top.to) /\ frames' = Advance(Below)
        /\ UNCHANGED <<history, seen, handed>> /\ AtEnd
    BY <1>7 DEF Return
  <2>3. n + 1 \in DOMAIN frames
    BY <1>0, <2>1 DEF TypeOK
  <2>4. made[Top.to].of = Top.of /\ made[Top.to].call = calls
    BY <2>1, <2>3 DEF MadeInv, WorkInv
  <2>5. Fits(Top.to, graph[frames[n].of][frames[n].next])
    BY <2>1, <2>4 DEF Fits
  <2>6. ~croaked => \A t \in Targets : (\A i \in 1 .. n : frames[i].to # t) => NoneLeft(t)
    BY <2>2, TopIsDone
  <2> HIDE DEF n
  <2> QED
    BY <2>1, <2>2, <2>4, <2>5, <2>6, PutKeepsMade
<1>8. ASSUME ReturnToCaller PROVE MadeInv'
  <2> DEFINE n == Len(frames) - 1
  <2>1. /\ frames \in Seq(Frame) /\ frames # << >> /\ frames' = Below /\ Top.root
        /\ seen' = << >> /\ UNCHANGED <<toPerl, graph, croaked, made, calls, disturbed>> /\ AtEnd
    BY <1>0, <1>8 DEF ReturnToCaller, AtEnd, TypeOK, SeenAfter, history
  <2>2. /\ Len(frames) \in Nat /\ Len(frames) >= 1 /\ Len(frames') = n
        /\ \A i \in 1 .. n : frames'[i] = frames[i]
        /\ Top = frames[Len(frames)]
    BY <2>1, BelowFacts
  <2>3. n \in Nat /\ n <= Len(frames)
    BY <2>2
  <2>4. n > 0 => calls \in disturbed
    <3>1. n > 0 => Len(frames) \in 2 .. Len(frames)
      BY <2>2
    <3> QED
      BY <2>1, <2>2, <3>1 DEF MadeInv, OnceInv
  <2>5. ~croaked => \A t \in Targets : (\A i \in 1 .. n : frames[i].to # t) => NoneLeft(t)
    BY <2>1, TopIsDone
  <2>6. calls' >= calls
    BY <1>0, <2>1, MarshalAssumption DEF TypeOK
  <2> HIDE DEF n
  <2> QED
    BY <1>0, <2>1, <2>2, <2>3, <2>4, <2>5, <2>6, EndKeepsMade
<1>9. ASSUME Croak PROVE MadeInv'
  BY <1>0, <1>9, CroakKeepsMade
<1>10. CASE UNCHANGED vars
  BY <1>0, <1>10 DEF vars, MadeInv, WorkInv, SlotsInv, GoodSlot, Fits, DoneInv, NoneLeft, SeenInv,
    OnceInv, SharedOnce, Targets
<1> QED
  BY <1>1, <1>2, <1>3, <1>4, <1>5, <1>6, <1>7, <1>8, <1>9, <1>10 DEF Next, Step

LEMMA MadeAlways == Spec => []MadeInv
<1>1. MadeInv /\ [Next]_vars => MadeInv'
  BY NextMade
<1> QED
  BY InitMade, <1>1, PTL DEF Spec

-----------------------------------------------------------------------------
(* The properties.                                                         *)

\* A target that is done has all slots of its source, or those before a hole.
LEMMA AllSlotsThere ==
  ASSUME TypeOK, SlotsInv, NEW t \in Targets, NoneLeft(t)
  PROVE  /\ Len(made[t].slots) <= Len(graph[made[t].of])
         /\ ~Holed(made[t].of) => Len(made[t].slots) = Len(graph[made[t].of])
<1> DEFINE o == made[t].of
           g == graph[o]
           n == Len(made[t].slots)
<1>1. n \in Nat /\ Len(g) \in Nat /\ DOMAIN g = 1 .. Len(g)
  BY MadeTypes
<1>2. \A i \in 1 .. n : i <= Len(g)
  BY DEF SlotsInv, GoodSlot
<1>3. ~(n + 1 <= Len(g) /\ (toPerl \/ g[n + 1] # Hole))
  BY DEF NoneLeft
<1>4. ~Holed(o) => \A i \in DOMAIN g : toPerl \/ g[i] # Hole
  BY DEF Holed
<1> HIDE DEF g, n, o
<1>5. PICK l \in Nat : l = Len(g)
  BY <1>1
<1>6. n <= l
  BY <1>1, <1>2, <1>5
<1>7. ASSUME ~Holed(o) PROVE n = l
  <2>1. ASSUME n + 1 <= l PROVE FALSE
    <3>1. n + 1 \in DOMAIN g
      BY <1>1, <1>5, <2>1
    <3> QED
      BY <1>3, <1>4, <1>5, <1>7, <2>1, <3>1
  <2>2. n \in Nat
    BY <1>1
  <2> QED
    BY ONLY l \in Nat, <1>6, <2>1, <2>2
<1> QED
  BY <1>5, <1>6, <1>7 DEF g, n, o

\* When the program has its values, they are whole (pl_duk.c:326, 337), but for Perl
\* arrays with holes, and until a conversion is cut short: code that ran in the middle, and
\* saw targets unfinished, changes nothing.
THEOREM ConversionsAreWhole == Spec => []Whole
<1>1. MadeInv => Whole
  <2> SUFFICES ASSUME MadeInv, frames = << >>, ~croaked
               PROVE  \E whole \in SUBSET Targets :
                        /\ handed \subseteq whole
                        /\ \A t \in whole :
                             /\ Complete(t)
                             /\ \A i \in DOMAIN made[t].slots :
                                  made[t].slots[i] \in whole \cup {Leaf, Hole}
    BY DEF Whole
  <2>0. TypeOK /\ handed \subseteq Targets
    BY DEF MadeInv, TypeInv, TypeOK
  <2>1. ASSUME NEW t \in Targets
        PROVE  /\ Complete(t)
               /\ \A i \in DOMAIN made[t].slots : made[t].slots[i] \in Targets \cup {Leaf, Hole}
    <3>1. NoneLeft(t)
      BY DEF MadeInv, DoneInv
    <3>2. /\ Len(made[t].slots) <= Len(graph[made[t].of])
          /\ ~Holed(made[t].of) => Len(made[t].slots) = Len(graph[made[t].of])
      BY <2>0, <3>1, AllSlotsThere DEF MadeInv
    <3>3. DOMAIN made[t].slots = 1 .. Len(made[t].slots)
      BY <2>0, MadeTypes
    <3>4. ASSUME NEW i \in 1 .. Len(made[t].slots)
          PROVE  /\ Matches(made[t].slots[i], graph[made[t].of][i])
                 /\ made[t].slots[i] \in Targets \cup {Leaf, Hole}
      <4>1. made[t].slots[i] \in Targets \cup {Leaf, Hole}
        BY <2>0, MadeTypes, SeqElement
      <4>2. Fits(made[t].slots[i], graph[made[t].of][i])
        BY DEF MadeInv, SlotsInv, GoodSlot
      <4>3. ASSUME made[t].slots[i] \in Targets
            PROVE  made[made[t].slots[i]].of \notin {Leaf, Hole, Active}
        BY <2>0, <4>3, MadeTypes DEF Sources, Leaf, Hole, Active
      <4> QED
        BY <4>1, <4>2, <4>3 DEF Fits, Matches, Leaf, Hole, Active
    <3> QED
      BY <3>2, <3>3, <3>4 DEF Complete
  <2> QED
    BY <2>0, <2>1
<1> QED
  BY <1>1, MadeAlways, PTL

\* No value that one call of the program returns is part of what another one does
\* (pl_duk.c:326, 337), until a conversion is cut short.
THEOREM CallsStayApart == Spec => []CallsApart
<1>1. MadeInv => CallsApart
  <2> SUFFICES ASSUME MadeInv, ~croaked, NEW t \in Targets, NEW i \in DOMAIN made[t].slots,
                      made[t].slots[i] \in Targets
               PROVE  made[made[t].slots[i]].call = made[t].call
    BY DEF CallsApart
  <2>1. i \in 1 .. Len(made[t].slots)
    BY MadeTypes DEF MadeInv, TypeInv
  <2> QED
    BY <2>1 DEF MadeInv, SlotsInv, GoodSlot
<1> QED
  BY <1>1, MadeAlways, PTL

\* What is shared stays shared (pl_duk.c:73, 115, 212, 248), unless code ran.
THEOREM SharedStaysShared == Spec => []SharedOnce
<1>1. MadeInv => SharedOnce
  BY DEF MadeInv, OnceInv
<1> QED
  BY <1>1, MadeAlways, PTL

\* The recursion goes no deeper than there are sources (Changes:99), unless code ran.
THEOREM CyclesCutShort == Spec => []CyclesEnd
<1>1. MadeInv => CyclesEnd
  <2> SUFFICES ASSUME MadeInv, calls \notin disturbed,
                      NEW i \in DOMAIN frames, NEW j \in DOMAIN frames,
                      frames[i].of = frames[j].of
               PROVE  i = j
    BY DEF CyclesEnd
  <2>1. frames # << >> /\ frames[i].to \in Targets /\ frames[j].to \in Targets
    <3>1. i \in 1 .. Len(frames) /\ j \in 1 .. Len(frames)
      BY DEF MadeInv, TypeInv, TypeOK
    <3> QED
      BY <3>1, FrameTypes DEF MadeInv, TypeInv
  <2>2. /\ made[frames[i].to].of = frames[i].of /\ made[frames[i].to].call = calls
        /\ made[frames[j].to].of = frames[j].of /\ made[frames[j].to].call = calls
    BY DEF MadeInv, WorkInv
  <2>3. frames[i].to = frames[j].to
    BY <2>1, <2>2 DEF MadeInv, OnceInv
  <2> QED
    BY <2>3 DEF MadeInv, WorkInv
<1> QED
  BY <1>1, MadeAlways, PTL
=============================================================================
