----------------------------- MODULE Entries_proofs -----------------------------
(***************************************************************************)
(* The entries of a VM keep what they find on its value stack, and answer  *)
(* with values of their own, for every number of calls and every nesting.  *)
(***************************************************************************)
EXTENDS Entries, SequenceTheorems, TLAPS

-----------------------------------------------------------------------------
(* The invariant.  OwnAnswer and Balanced are not inductive: they need to  *)
(* know what each call has on its stack at each stage, also while others   *)
(* run above it.                                                           *)

\* The stages that a call of each kind goes through.
StageOf(f) ==
  /\ f.op = "eval" => f.at \in {"ready", "script", "convert", "loop"}
  /\ f.op = "eval" /\ f.at \in {"ready", "script"} => f.ok
  /\ f.op = "dispatch" => f.at \in {"script", "loop"}
  /\ f.op \in {"exists", "instanceof", "class"} =>
       f.at \in {"global", "script", "property"}
  /\ f.op = "get" => f.at \in {"global", "script", "property", "convert"}
  /\ f.op = "set" => f.at \in {"fetch", "global", "script", "property"}
  /\ f.op = "remove" => f.at \in {"ready", "script", "property"}
  /\ f.op = "sub" => f.at \in {"convert", "perl", "fetch"}
  /\ f.deep \in Nat /\ (f.at # "fetch" => f.deep = 0)

\* How many values of its own it has on the stack then (a sub at least as many).
Height(f) ==
  IF f.at = "fetch"
  THEN f.deep
  ELSE IF f.op = "eval"
  THEN IF f.at = "convert" THEN (IF f.ok THEN 1 ELSE 2)
       ELSE IF f.at = "loop" /\ ~f.ok THEN 1 ELSE 0
  ELSE IF f.op = "set"
  THEN IF f.at = "property" THEN 3 ELSE IF f.at = "script" THEN 2 ELSE 1
  ELSE (IF f.op = "class" THEN 1 ELSE 0)
       + (IF f.at = "property" \/ (f.op = "get" /\ f.at = "convert") THEN 1 ELSE 0)

\* The calls that will answer with what stands right above their base.
KeepsFirst(f) ==
  \/ f.op = "class"
  \/ f.op = "set" /\ (f.at # "fetch" \/ f.deep > 0)
  \/ f.op = "get" /\ f.at = "convert"

\* The values of s up to n, above the base of f, are those that f has put there.
Held(f, s, n) ==
  /\ f.op # "sub" => n = f.base + Height(f)
  /\ KeepsFirst(f) => s[f.base + 1] = [of |-> f.no, is |-> "value"]
  /\ f.op = "sub" /\ f.at = "fetch" /\ f.deep > 0 =>
       s[n - f.deep + 1] = [of |-> f.no, is |-> "value"]
  /\ f.op = "eval" /\ f.at = "convert" =>
       s[n].of = f.no /\ (f.ok => s[n].is = "answer")

\* Neither the i-th frame nor one above it on its stack is spoilt.
Clean(i) ==
  \A j \in i .. Len(frames) : frames[j].act = frames[i].act => frames[j].no \notin spoilt

\* Where the values of the i-th frame end: where those of the next one begin, if that one
\* shares its stack.
Upto(i) ==
  IF i < Len(frames) /\ frames[i + 1].op # "sub" THEN frames[i + 1].base
                                                 ELSE Len(stacks[frames[i].act])

\* Frames share a stack in the order of their bases; a sub shares none from below.
Nested ==
  \A i, j \in DOMAIN frames : i < j =>
    /\ frames[i].act <= frames[j].act
    /\ frames[i].act = frames[j].act => frames[i].base <= frames[j].base
    /\ frames[j].op = "sub" => frames[i].act < frames[j].act

\* Scripts call subs, on the next stack; all else is called by Perl code, on the same.
Linked(i) ==
  IF frames[i + 1].op = "sub"
  THEN /\ frames[i + 1].act = frames[i].act + 1
       /\ frames[i].at \in {"script", "global", "property", "convert", "loop"}
  ELSE /\ frames[i + 1].act = frames[i].act
       /\ frames[i].at \in {"perl", "fetch"}

Holding(i) ==
  LET f == frames[i]
  IN /\ StageOf(f)
     /\ f.base + Height(f) <= Upto(i)
     /\ f.base <= Len(stacks[f.act])
     /\ Clean(i) => Held(f, stacks[f.act], Upto(i))

StackTypes ==
  /\ stacks \in Seq(Seq(Value)) /\ stacks # << >>
  /\ frames \in Seq(Frame)
  /\ frames # << >> => Top.act = Len(stacks)
  /\ begun \in 0 .. MaxCalls
  /\ spoilt \subseteq 1 .. begun
  /\ aborted \in BOOLEAN

Core ==
  /\ StackTypes
  /\ Nested
  /\ frames # << >> => frames[1].op # "sub"
  /\ \A i \in 1 .. Len(frames) - 1 : Linked(i)
  /\ \A i \in DOMAIN frames : Holding(i)

Ending ==
  /\ last.got \in Value \cup {Nothing} /\ last.left \in Int
  /\ OwnAnswer
  /\ Balanced

Inv == Core /\ Ending

-----------------------------------------------------------------------------
(* The operators on the stacks.                                            *)

\* tt differs from ss only in its last stack, and there only above the height b.
Over(ss, tt, b) ==
  /\ Len(tt) = Len(ss)
  /\ \A k \in 1 .. Len(ss) - 1 : tt[k] = ss[k]
  /\ b <= Len(tt[Len(ss)])
  /\ \A p \in 1 .. b : tt[Len(ss)][p] = ss[Len(ss)][p]

\* Replacing the last stack.
LEMMA ReplaceLast ==
  ASSUME NEW S, NEW ss \in Seq(Seq(S)), ss # << >>, NEW t \in Seq(S),
         NEW tt, tt = [ss EXCEPT ![Len(ss)] = t]
  PROVE  /\ tt \in Seq(Seq(S)) /\ Len(tt) = Len(ss) /\ Len(ss) \in Nat \ {0}
         /\ tt[Len(ss)] = t
         /\ \A k \in 1 .. Len(ss) - 1 : tt[k] = ss[k]
<1>1. Len(ss) \in Nat \ {0} /\ Len(ss) \in 1 .. Len(ss)
  BY EmptySeq, LenProperties
<1> QED
  BY <1>1, ExceptSeq

LEMMA LastStack ==
  ASSUME NEW S, NEW ss \in Seq(Seq(S)), ss # << >>
  PROVE  /\ Len(ss) \in Nat \ {0}
         /\ Last(ss) = ss[Len(ss)] /\ Last(ss) \in Seq(S)
         /\ Len(Last(ss)) \in Nat
<1>1. Len(ss) \in Nat \ {0} /\ Len(ss) \in 1 .. Len(ss)
  BY EmptySeq, LenProperties
<1> QED
  BY <1>1, ElementOfSeq, LenProperties DEF Last

LEMMA PushFacts ==
  ASSUME NEW S, NEW ss \in Seq(Seq(S)), ss # << >>, NEW v \in S
  PROVE  LET tt == Push(ss, v)
         IN /\ tt \in Seq(Seq(S)) /\ tt # << >>
            /\ Over(ss, tt, Len(Last(ss)))
            /\ Len(Last(tt)) = Len(Last(ss)) + 1
            /\ Last(tt)[Len(Last(ss)) + 1] = v
<1>1. /\ Len(ss) \in Nat \ {0} /\ ss[Len(ss)] = Last(ss) /\ Last(ss) \in Seq(S)
      /\ Len(Last(ss)) \in Nat
  BY LastStack
<1> DEFINE t == Append(Last(ss), v)
           tt == Push(ss, v)
<1>2. /\ t \in Seq(S) /\ Len(t) = Len(Last(ss)) + 1
      /\ \A p \in 1 .. Len(Last(ss)) : t[p] = Last(ss)[p]
      /\ t[Len(Last(ss)) + 1] = v
  BY <1>1, AppendProperties
<1>3. tt = [ss EXCEPT ![Len(ss)] = t]
  BY <1>1 DEF Push
<1> HIDE DEF t, tt
<1>4. /\ tt \in Seq(Seq(S)) /\ Len(tt) = Len(ss) /\ tt[Len(ss)] = t
      /\ \A k \in 1 .. Len(ss) - 1 : tt[k] = ss[k]
  BY <1>2, <1>3, ReplaceLast
<1>5. tt # << >> /\ Last(tt) = t
  BY <1>1, <1>4, LenProperties, EmptySeq DEF Last
<1> QED
  BY <1>1, <1>2, <1>4, <1>5 DEF Over, tt

LEMMA PopFacts ==
  ASSUME NEW S, NEW ss \in Seq(Seq(S)), ss # << >>, NEW n \in 0 .. Len(Last(ss))
  PROVE  LET tt == Pop(ss, n)
         IN /\ tt \in Seq(Seq(S)) /\ tt # << >>
            /\ Over(ss, tt, Len(Last(ss)) - n)
            /\ Len(Last(tt)) = Len(Last(ss)) - n
<1>1. /\ Len(ss) \in Nat \ {0} /\ ss[Len(ss)] = Last(ss) /\ Last(ss) \in Seq(S)
      /\ Len(Last(ss)) \in Nat
  BY LastStack
<1> DEFINE m == Len(Last(ss)) - n
           t == SubSeq(Last(ss), 1, m)
           tt == Pop(ss, n)
<1>2. m \in Nat /\ m <= Len(Last(ss))
  BY <1>1
<1>3. \A p \in 1 .. m : Last(ss)[p] \in S
  BY <1>1, <1>2, ElementOfSeq
<1>4. t \in Seq(S) /\ Len(t) = m /\ \A p \in 1 .. m : t[p] = Last(ss)[p]
  <2> HIDE DEF m
  <2>1. /\ SubSeq(Last(ss), 1, m) \in Seq(S)
        /\ Len(SubSeq(Last(ss), 1, m)) = IF 1 <= m THEN m - 1 + 1 ELSE 0
        /\ \A i \in 1 .. m - 1 + 1 : SubSeq(Last(ss), 1, m)[i] = Last(ss)[1 + i - 1]
    BY <1>2, <1>3, SubSeqProperties
  <2> QED
    BY <1>2, <2>1
<1>5. tt = [ss EXCEPT ![Len(ss)] = t]
  BY <1>1 DEF Pop
<1> HIDE DEF t, tt, m
<1>6. /\ tt \in Seq(Seq(S)) /\ Len(tt) = Len(ss) /\ tt[Len(ss)] = t
      /\ \A k \in 1 .. Len(ss) - 1 : tt[k] = ss[k]
  BY <1>4, <1>5, ReplaceLast
<1>7. tt # << >> /\ Last(tt) = t
  BY <1>1, <1>6, LenProperties, EmptySeq DEF Last
<1> QED
  BY <1>1, <1>2, <1>4, <1>6, <1>7 DEF Over, tt, m

\* What is made text keeps its place and its owner.
LEMMA ToTextFacts ==
  ASSUME NEW ss \in Seq(Seq(Value)), ss # << >>, Last(ss) # << >>
  PROVE  LET tt == ToText(ss)
             n == Len(Last(ss))
         IN /\ tt \in Seq(Seq(Value)) /\ tt # << >>
            /\ Over(ss, tt, n - 1)
            /\ Len(Last(tt)) = n
            /\ Last(tt)[n].of = Last(ss)[n].of /\ Last(tt)[n].is = "text"
<1> DEFINE s == Last(ss)
           n == Len(s)
           v == [s[n] EXCEPT !.is = "text"]
           t == Append(Front(s), v)
           tt == ToText(ss)
<1>1. Len(ss) \in Nat \ {0} /\ ss[Len(ss)] = s /\ s \in Seq(Value) /\ n \in Nat \ {0}
  BY LastStack, EmptySeq
<1>2. s[n] \in Value
  BY <1>1, ElementOfSeq
<1>3. v \in Value /\ v.of = s[n].of /\ v.is = "text"
  BY <1>2 DEF Value
<1>4. Front(s) \in Seq(Value) /\ Len(Front(s)) = n - 1 /\ \A p \in 1 .. n - 1 : Front(s)[p] = s[p]
  <2>1. \A p \in 1 .. n - 1 : s[p] \in Value
    BY <1>1, ElementOfSeq
  <2> HIDE DEF s, n
  <2>2. /\ SubSeq(s, 1, n - 1) \in Seq(Value)
        /\ Len(SubSeq(s, 1, n - 1)) = IF 1 <= n - 1 THEN (n - 1) - 1 + 1 ELSE 0
        /\ \A i \in 1 .. (n - 1) - 1 + 1 : SubSeq(s, 1, n - 1)[i] = s[1 + i - 1]
    BY <1>1, <2>1, SubSeqProperties
  <2>3. Front(s) = SubSeq(s, 1, n - 1)
    BY DEF Front, n
  <2> QED
    BY <1>1, <2>2, <2>3
<1>5. /\ t \in Seq(Value) /\ Len(t) = n /\ t[n] = v
      /\ \A p \in 1 .. n - 1 : t[p] = s[p]
  <2> HIDE DEF v, s, n
  <2> QED
    BY <1>1, <1>3, <1>4, AppendProperties
<1>6. tt = [ss EXCEPT ![Len(ss)] = t]
  BY <1>1 DEF ToText, Last
<1> HIDE DEF t, tt, v, n
<1>7. /\ tt \in Seq(Seq(Value)) /\ Len(tt) = Len(ss) /\ tt[Len(ss)] = t
      /\ \A k \in 1 .. Len(ss) - 1 : tt[k] = ss[k]
  BY <1>5, <1>6, ReplaceLast
<1>8. tt # << >> /\ Last(tt) = t
  BY <1>1, <1>7, LenProperties, EmptySeq DEF Last
<1> QED
  BY <1>1, <1>3, <1>5, <1>7, <1>8 DEF Over, tt, n

\* To do one thing over another.
LEMMA OverOver ==
  ASSUME NEW ss, NEW tt, NEW uu, NEW a \in Int, NEW b \in Int, NEW c \in Int,
         Len(ss) \in Nat, Over(ss, tt, a), Over(tt, uu, b), c <= a, c <= b,
         Len(uu[Len(ss)]) \in Int
  PROVE  Over(ss, uu, c)
  BY DEF Over

LEMMA OverLess ==
  ASSUME NEW ss, NEW tt, NEW a \in Int, NEW b \in Int, Over(ss, tt, a), b <= a,
         Len(tt[Len(ss)]) \in Int
  PROVE  Over(ss, tt, b)
  BY DEF Over

LEMMA OverSame ==
  ASSUME NEW ss, NEW a \in Int, a <= Len(ss[Len(ss)])
  PROVE  Over(ss, ss, a)
  BY DEF Over

-----------------------------------------------------------------------------
(* Sequences of frames.                                                    *)

LEMMA FrontFacts ==
  ASSUME NEW S, NEW s \in Seq(S), s # << >>
  PROVE  /\ Front(s) \in Seq(S) /\ Len(Front(s)) = Len(s) - 1
         /\ Len(s) \in Nat \ {0}
         /\ \A k \in 1 .. Len(s) - 1 : Front(s)[k] = s[k]
<1> DEFINE m == Len(s) - 1
<1>1. Len(s) \in Nat \ {0} /\ m \in Nat /\ \A p \in 1 .. m : s[p] \in S
  BY EmptySeq, ElementOfSeq
<1>2. Front(s) = SubSeq(s, 1, m)
  BY DEF Front
<1> HIDE DEF m
<1>3. /\ SubSeq(s, 1, m) \in Seq(S)
      /\ Len(SubSeq(s, 1, m)) = IF 1 <= m THEN m - 1 + 1 ELSE 0
      /\ \A i \in 1 .. m - 1 + 1 : SubSeq(s, 1, m)[i] = s[1 + i - 1]
  BY <1>1, SubSeqProperties
<1>4. Front(s) \in Seq(S) /\ Len(Front(s)) = m /\ \A k \in 1 .. m : Front(s)[k] = s[k]
  BY <1>1, <1>2, <1>3
<1> QED
  BY <1>1, <1>4 DEF m

LEMMA LastReplaced ==
  ASSUME NEW S, NEW s \in Seq(S), s # << >>, NEW e \in S
  PROVE  LET t == Append(Front(s), e)
         IN /\ t \in Seq(S) /\ t # << >> /\ Len(t) = Len(s) /\ Len(s) \in Nat \ {0}
            /\ t[Len(s)] = e /\ Last(t) = e
            /\ \A k \in 1 .. Len(s) - 1 : t[k] = s[k]
<1>1. /\ Front(s) \in Seq(S) /\ Len(Front(s)) = Len(s) - 1
      /\ Len(s) \in Nat \ {0}
      /\ \A k \in 1 .. Len(s) - 1 : Front(s)[k] = s[k]
  BY FrontFacts
<1> QED
  BY <1>1, AppendProperties DEF Last

LEMMA FrameTypes ==
  ASSUME Core
  PROVE  /\ Len(frames) \in Nat /\ DOMAIN frames = 1 .. Len(frames)
         /\ Len(stacks) \in Nat \ {0} /\ Stack = stacks[Len(stacks)] /\ Len(Stack) \in Nat
         /\ begun \in Nat
         /\ \A i \in 1 .. Len(frames) :
              /\ frames[i] \in Frame
              /\ frames[i].no \in 1 .. begun /\ frames[i].act \in 1 .. Len(stacks)
              /\ frames[i].base \in Nat /\ frames[i].ok \in BOOLEAN
              /\ Height(frames[i]) \in Nat
              /\ stacks[frames[i].act] \in Seq(Value)
              /\ Len(stacks[frames[i].act]) \in Nat
<1>1. /\ Len(frames) \in Nat /\ DOMAIN frames = 1 .. Len(frames)
      /\ Len(stacks) \in Nat \ {0} /\ Stack = stacks[Len(stacks)] /\ Len(Stack) \in Nat
      /\ begun \in Nat
  BY LenProperties, LastStack, EntriesAssumption DEF Core, StackTypes, Stack
<1>2. ASSUME NEW i \in 1 .. Len(frames)
      PROVE  /\ frames[i] \in Frame
             /\ frames[i].no \in 1 .. begun /\ frames[i].act \in 1 .. Len(stacks)
             /\ frames[i].base \in Nat /\ frames[i].ok \in BOOLEAN
             /\ Height(frames[i]) \in Nat
             /\ stacks[frames[i].act] \in Seq(Value)
             /\ Len(stacks[frames[i].act]) \in Nat
  <2>1. frames[i] \in Frame
    BY <1>1, ElementOfSeq DEF Core, StackTypes
  <2>2. /\ frames[i].no \in 1 .. begun /\ frames[i].act \in 1 .. Len(stacks)
        /\ frames[i].base \in Nat /\ frames[i].ok \in BOOLEAN
    BY <2>1 DEF Frame
  <2>3. Height(frames[i]) \in Nat
    <3>1. frames[i].deep \in Nat
      BY <2>1, EntriesAssumption DEF Frame
    <3> QED
      BY <3>1 DEF Height
  <2>4. stacks[frames[i].act] \in Seq(Value)
    BY <2>2, ElementOfSeq DEF Core, StackTypes
  <2> QED
    BY <2>1, <2>2, <2>3, <2>4, LenProperties
<1> QED
  BY <1>1, <1>2

LEMMA TopFacts ==
  ASSUME Core, frames # << >>
  PROVE  /\ Len(frames) \in Nat \ {0} /\ Top = frames[Len(frames)]
         /\ Top \in Frame /\ Top.act = Len(stacks) /\ Top.base \in Nat
         /\ Top.no \in 1 .. begun /\ Height(Top) \in Nat
         /\ Stack = stacks[Top.act] /\ Upto(Len(frames)) = Len(Stack)
         /\ Top.base + Height(Top) <= Len(Stack)
         /\ StageOf(Top)
         /\ Top.no \notin spoilt => Held(Top, Stack, Len(Stack))
<1>1. Len(frames) \in Nat \ {0}
  BY EmptySeq DEF Core, StackTypes
<1>2. Top = frames[Len(frames)] /\ Len(frames) \in DOMAIN frames /\ Top.act = Len(stacks)
  BY <1>1, FrameTypes DEF Top, Last, Core, StackTypes
<1>3. Upto(Len(frames)) = Len(Stack)
  BY <1>1, <1>2, FrameTypes DEF Upto
<1>4. Holding(Len(frames))
  BY <1>2 DEF Core
<1>5. Top.no \notin spoilt => Clean(Len(frames))
  BY <1>1, <1>2 DEF Clean
<1> QED
  BY <1>1, <1>2, <1>3, <1>4, <1>5, FrameTypes DEF Holding

LEMMA InOrder ==
  ASSUME Core, NEW i \in 1 .. Len(frames), NEW j \in 1 .. Len(frames), i < j
  PROVE  /\ frames[i].act <= frames[j].act
         /\ frames[i].act = frames[j].act => frames[i].base <= frames[j].base
         /\ frames[j].op = "sub" => frames[i].act < frames[j].act
<1>1. DOMAIN frames = 1 .. Len(frames)
  BY FrameTypes
<1>2. Nested
  BY DEF Core
<1> QED
  BY <1>1, <1>2 DEF Nested

LEMMA Each ==
  ASSUME Core, NEW i \in 1 .. Len(frames)
  PROVE  /\ Holding(i)
         /\ i \in 1 .. Len(frames) - 1 => Linked(i)
         /\ Upto(i) \in Int
         /\ frames[i].base <= Len(stacks[frames[i].act])
         /\ frames[i].base + Height(frames[i]) <= Upto(i)
         /\ frames[i].base <= Upto(i)
<1>1. /\ DOMAIN frames = 1 .. Len(frames) /\ Len(frames) \in Nat
      /\ Len(stacks[frames[i].act]) \in Nat /\ frames[i].base \in Nat
      /\ Height(frames[i]) \in Nat
  BY FrameTypes
<1>2. Holding(i) /\ (i \in 1 .. Len(frames) - 1 => Linked(i))
  BY <1>1 DEF Core
<1>3. Upto(i) \in Int
  <2>1. CASE i < Len(frames)
    <3>1. frames[i + 1].base \in Nat
      BY <1>1, <2>1, FrameTypes, SMTT(30)
    <3> QED
      BY <1>1, <3>1 DEF Upto
  <2>2. CASE ~(i < Len(frames))
    BY <1>1, <2>2 DEF Upto
  <2> QED
    BY <2>1, <2>2
<1>4. frames[i].base + Height(frames[i]) <= Upto(i) /\ frames[i].base <= Len(stacks[frames[i].act])
  BY <1>2 DEF Holding
<1> QED
  BY <1>1, <1>2, <1>3, <1>4

\* What a frame holds up to n does not depend on what is above.
LEMMA HeldBelow ==
  ASSUME NEW f, NEW s, NEW t, NEW n \in Int, NEW b \in Int,
         f.base \in Nat, f.base + Height(f) <= n, n <= b, Held(f, s, n),
         StageOf(f), \A p \in 1 .. b : t[p] = s[p]
  PROVE  Held(f, t, n)
<1>1. KeepsFirst(f) => Height(f) >= 1
  BY DEF KeepsFirst, Height, StageOf
<1>2. f.at = "fetch" => Height(f) = f.deep
  BY DEF Height
<1>3. f.op = "eval" /\ f.at = "convert" => Height(f) >= 1
  BY DEF Height
<1>4. Height(f) \in Nat /\ f.deep \in Nat
  BY DEF Height, StageOf
<1>5. KeepsFirst(f) => t[f.base + 1] = s[f.base + 1]
  BY <1>1, <1>4
<1>6. f.at = "fetch" /\ f.deep > 0 => t[n - f.deep + 1] = s[n - f.deep + 1]
  BY <1>2, <1>4
<1>7. f.op = "eval" /\ f.at = "convert" => t[n] = s[n]
  BY <1>3, <1>4
<1> QED
  BY <1>5, <1>6, <1>7 DEF Held

-----------------------------------------------------------------------------
(* The kinds of steps: a call goes on, a call ends, another one begins.    *)

KeptBelow ==
  \A i \in DOMAIN frames \cap DOMAIN frames' :
    LET f == frames[i]
    IN frames'[i].no = f.no =>
         SubSeq(stacks'[f.act], 1, f.base) = SubSeq(stacks[f.act], 1, f.base)

\* A frame is the last one, or below it.
LEMMA LastOrBefore ==
  ASSUME NEW n \in Nat, NEW i \in 1 .. n
  PROVE  i = n \/ i < n
OBVIOUS

\* Of the stack of a frame below the top, when only what is above b changes on the
\* innermost stack.
LEMMA BelowTop ==
  ASSUME Core, frames # << >>, NEW tt, NEW b \in Int, Over(stacks, tt, b),
         Len(Last(tt)) \in Nat, Top.base <= Len(Last(tt)),
         NEW i \in 1 .. Len(frames) - 1
  PROVE  /\ frames[i].base <= Len(tt[frames[i].act])
         /\ Upto(i) \in Int
         /\ b = Top.base \/ frames[i].act < Len(stacks) =>
              \A p \in 1 .. Upto(i) : tt[frames[i].act][p] = stacks[frames[i].act][p]
         /\ frames[i + 1].op = "sub" =>
              Len(tt[frames[i].act]) = Len(stacks[frames[i].act])
<1> DEFINE n == Len(frames)
           j == i + 1
           f == frames[i]
           g == frames[j]
           m == Len(stacks)
<1>1. /\ n \in Nat \ {0} /\ i \in 1 .. n /\ j \in 1 .. n /\ i < j /\ i < n
  BY TopFacts
<1>2. /\ Top = frames[n] /\ Top.act = m /\ Top.base \in Nat /\ m \in Nat \ {0}
      /\ Len(tt) = m /\ \A k \in 1 .. m - 1 : tt[k] = stacks[k]
      /\ \A p \in 1 .. b : tt[m][p] = stacks[m][p]
  BY FrameTypes, TopFacts DEF Over
<1>3. /\ f.act \in 1 .. m /\ f.base \in Nat /\ Len(stacks[f.act]) \in Nat
      /\ g.act \in 1 .. m /\ g.base \in Nat
  BY <1>1, FrameTypes
<1>4. /\ Upto(i) \in Int /\ f.base <= Len(stacks[f.act])
      /\ Upto(i) = IF g.op # "sub" THEN g.base ELSE Len(stacks[f.act])
  <2>1. Upto(i) \in Int /\ f.base <= Len(stacks[f.act])
    BY <1>1, Each
  <2> QED
    BY <1>1, <2>1 DEF Upto
<1>5. f.act <= g.act /\ (f.act = g.act => g.op # "sub")
  BY <1>1, <1>3, InOrder, SMTT(30)
<1> HIDE DEF j, f
<1>6. j < n => g.act <= Top.act /\ (g.act = Top.act => g.base <= Top.base)
  BY <1>1, <1>2, InOrder
<1>7. f.act <= Top.act /\ (f.act = Top.act => f.base <= Top.base)
  BY <1>1, <1>2, InOrder DEF f
<1>8. j = n => g = Top
  BY <1>2
<1> HIDE DEF g, n, m
<1>10. CASE f.act < m
  <2>1. tt[f.act] = stacks[f.act]
    BY <1>2, <1>3, <1>10
  <2> QED
    BY <1>4, <2>1 DEF f
<1>11. CASE f.act = m
  <2>1. g.act = m /\ g.op # "sub"
    BY <1>1, <1>2, <1>3, <1>5, <1>11
  <2>2. Upto(i) = g.base
    BY <1>4, <2>1
  <2>3. tt[m] = Last(tt)
    BY <1>2 DEF Last
  <2>4. g.base <= Top.base
    <3>1. j = n \/ j < n
      BY <1>1, LastOrBefore
    <3> QED
      BY <1>2, <1>3, <1>6, <1>8, <2>1, <3>1
  <2>5. b = Top.base => \A p \in 1 .. Upto(i) : tt[m][p] = stacks[m][p]
    BY <1>2, <1>3, <2>2, <2>4
  <2>6. f.base <= Len(tt[m])
    BY <1>2, <1>3, <1>7, <1>11, <2>3
  <2>7. f.base <= Len(tt[f.act]) /\ g.op # "sub"
    BY <1>11, <2>1, <2>6
  <2>8. b = Top.base \/ f.act < m => \A p \in 1 .. Upto(i) : tt[f.act][p] = stacks[f.act][p]
    BY <1>2, <1>11, <2>5
  <2> QED
    BY <1>4, <2>7, <2>8 DEF f, g, j, m
<1> QED
  BY <1>2, <1>3, <1>10, <1>11 DEF m

LEMMA SamePrefix ==
  ASSUME NEW s, NEW t, NEW b \in Nat, \A p \in 1 .. b : t[p] = s[p]
  PROVE  SubSeq(t, 1, b) = SubSeq(s, 1, b)
  OBVIOUS

\* The innermost call goes on as f, and leaves what is below it.
GoesOnAs(f) ==
  /\ frames # << >> /\ f \in Frame /\ Goes(f)
  /\ f.no = Top.no /\ f.act = Top.act /\ f.base = Top.base
  /\ f.op = "sub" <=> Top.op = "sub"
  /\ stacks' \in Seq(Seq(Value)) /\ Over(stacks, stacks', Top.base)
  /\ UNCHANGED <<begun, spoilt, aborted>>
  /\ StageOf(f) /\ f.base + Height(f) <= Len(Last(stacks'))
  /\ Top.no \notin spoilt => Held(f, Last(stacks'), Len(Last(stacks')))

LEMMA GoesOn ==
  ASSUME Core, NEW f, GoesOnAs(f)
  PROVE  Core' /\ KeptBelow
<1> DEFINE n == Len(frames)
<1>1. /\ n \in Nat \ {0} /\ Top = frames[n] /\ Top.act = Len(stacks) /\ Top.base \in Nat
      /\ Len(stacks) \in Nat \ {0} /\ Len(stacks') = Len(stacks)
      /\ DOMAIN frames = 1 .. n /\ frames # << >>
  BY FrameTypes, TopFacts DEF Over, GoesOnAs
<1>2. /\ frames' \in Seq(Frame) /\ frames' # << >> /\ Len(frames') = n
      /\ frames'[n] = f /\ Top' = f
      /\ \A k \in 1 .. n - 1 : frames'[k] = frames[k]
  <2>1. /\ frames \in Seq(Frame) /\ frames' = Append(Front(frames), f) /\ f \in Frame
        /\ frames # << >>
    BY DEF Core, StackTypes, Goes, GoesOnAs
  <2>2. /\ frames' \in Seq(Frame) /\ frames' # << >> /\ Len(frames') = n
        /\ frames'[n] = f /\ Last(frames') = f
        /\ \A k \in 1 .. n - 1 : frames'[k] = frames[k]
    BY <2>1, LastReplaced
  <2> QED
    BY <2>2 DEF Top
<1>3. DOMAIN frames' = 1 .. n
  BY <1>2, LenProperties
<1>4. /\ stacks' # << >> /\ stacks' \in Seq(Seq(Value)) /\ Last(stacks') = stacks'[Len(stacks)]
      /\ Len(Last(stacks')) \in Nat
  <2>1. stacks' \in Seq(Seq(Value))
    BY DEF GoesOnAs
  <2>2. stacks' # << >>
    BY <1>1, EmptySeq
  <2> QED
    BY <1>1, <2>1, <2>2, LastStack
<1>5. Frame' = Frame /\ Value' = Value
  BY <1>1 DEF Frame, Value, GoesOnAs
<1>6. StackTypes'
  BY <1>1, <1>2, <1>4, <1>5 DEF StackTypes, Core, GoesOnAs
<1>7. \A k \in 1 .. n : /\ frames'[k].act = frames[k].act /\ frames'[k].base = frames[k].base
                        /\ frames'[k].no = frames[k].no
                        /\ frames'[k].op = "sub" <=> frames[k].op = "sub"
  <2> SUFFICES ASSUME NEW k \in 1 .. n
               PROVE  /\ frames'[k].act = frames[k].act /\ frames'[k].base = frames[k].base
                      /\ frames'[k].no = frames[k].no
                      /\ frames'[k].op = "sub" <=> frames[k].op = "sub"
    OBVIOUS
  <2>1. CASE k = n
    BY <1>1, <1>2, <2>1 DEF GoesOnAs
  <2>2. CASE k \in 1 .. n - 1
    BY <1>2, <2>2
  <2> QED
    BY <1>1, <2>1, <2>2
<1>8. Nested'
  BY <1>1, <1>3, <1>7 DEF Core, Nested
<1>9. \A i \in 1 .. n - 1 : Linked(i)'
  BY <1>1, <1>2, <1>7 DEF Core, Linked
<1>10. frames'[1].op # "sub"
  BY <1>1, <1>7 DEF Core
<1>11. Height(f) \in Nat
  BY DEF Height, StageOf, GoesOnAs
<1>14. Top.base <= Len(Last(stacks')) /\ Over(stacks, stacks', Top.base)
  BY <1>1, <1>4, <1>11 DEF GoesOnAs
<1>15. f.act = Len(stacks) /\ f.base = Top.base /\ f.no = Top.no /\ spoilt' = spoilt
  BY <1>1 DEF GoesOnAs
<1>16. ASSUME NEW i \in 1 .. n PROVE Clean(i)' => Clean(i)
  BY <1>1, <1>2, <1>7, <1>15 DEF Clean
<1>12. ASSUME NEW i \in 1 .. n PROVE Holding(i)'
  <2>1. CASE i = n
    <3>1. Upto(i)' = Len(Last(stacks'))
      BY <1>1, <1>2, <1>4, <1>15, <2>1 DEF Upto
    <3>2. Clean(i)' => Top.no \notin spoilt
      BY <1>1, <1>16, <2>1 DEF Clean
    <3> QED
      BY <1>1, <1>2, <1>4, <1>11, <1>14, <1>15, <2>1, <3>1, <3>2 DEF Holding, GoesOnAs
  <2>2. CASE i < n
    <3> DEFINE h == frames[i]
    <3>1. /\ h.base <= Len(stacks'[h.act]) /\ Upto(i) \in Int
          /\ \A p \in 1 .. Upto(i) : stacks'[h.act][p] = stacks[h.act][p]
          /\ frames[i + 1].op = "sub" => Len(stacks'[h.act]) = Len(stacks[h.act])
      <4>1. i \in 1 .. Len(frames) - 1
        BY <1>1, <2>2
      <4> DEFINE tt == stacks'
                 b == Top.base
      <4>2. /\ Core /\ frames # << >> /\ b = Top.base /\ b \in Int
            /\ Over(stacks, tt, b) /\ Len(Last(tt)) \in Nat /\ Top.base <= Len(Last(tt))
        BY <1>1, <1>4, <1>14
      <4> HIDE DEF tt, b
      <4>3. /\ frames[i].base <= Len(tt[frames[i].act]) /\ Upto(i) \in Int
            /\ \A p \in 1 .. Upto(i) : tt[frames[i].act][p] = stacks[frames[i].act][p]
            /\ frames[i + 1].op = "sub" =>
                 Len(tt[frames[i].act]) = Len(stacks[frames[i].act])
        BY ONLY <4>1, <4>2, BelowTop
      <4> QED
        BY <4>3 DEF tt
    <3>2. frames'[i] = h /\ h.base \in Nat /\ Holding(i)
      <4>1. i \in 1 .. n - 1
        BY <1>1, <2>2
      <4>2. h.base \in Nat /\ Holding(i)
        BY FrameTypes, Each
      <4> QED
        BY <1>2, <4>1, <4>2
    <3>3. Upto(i)' = Upto(i)
      BY <1>1, <1>2, <1>7, <2>2, <3>1, <3>2 DEF Upto
    <3>4. Clean(i) => Held(h, stacks'[h.act], Upto(i))
      <4>1. h.base + Height(h) <= Upto(i)
        BY Each
      <4>2. StageOf(h) /\ (Clean(i) => Held(h, stacks[h.act], Upto(i)))
        BY <3>2 DEF Holding
      <4> DEFINE u == Upto(i)
                 held == stacks[h.act]
                 holds == stacks'[h.act]
      <4>3. u \in Int /\ \A p \in 1 .. u : holds[p] = held[p]
        BY <3>1
      <4>4. h.base \in Nat /\ h.base + Height(h) <= u /\ u <= u
        BY <3>2, <4>1, <4>3
      <4> HIDE DEF h, u, held, holds
      <4>5. Clean(i) => Held(h, holds, u)
        BY <4>2, <4>3, <4>4, HeldBelow DEF u, held
      <4> QED
        BY <4>5 DEF u, holds
    <3> QED
      <4>1. /\ StageOf(h) /\ h.base + Height(h) <= Upto(i)
            /\ h.base <= Len(stacks'[h.act])
        BY <3>1, <3>2 DEF Holding
      <4> QED
        BY <1>16, <3>2, <3>3, <3>4, <4>1 DEF Holding
  <2>3. i = n \/ i < n
    BY <1>1, LastOrBefore
  <2> QED
    BY <2>1, <2>2, <2>3
<1>13. KeptBelow
  <2> SUFFICES ASSUME NEW i \in 1 .. n
               PROVE  SubSeq(stacks'[frames[i].act], 1, frames[i].base)
                        = SubSeq(stacks[frames[i].act], 1, frames[i].base)
    BY <1>1, <1>3 DEF KeptBelow
  <2> DEFINE h == frames[i]
  <2>1. h.base \in Nat
    BY FrameTypes
  <2>2. \A p \in 1 .. h.base : stacks'[h.act][p] = stacks[h.act][p]
    <3>1. CASE i = n
      BY <1>1, <1>14, <3>1 DEF Over
    <3>2. CASE i < n
      <4>1. /\ Upto(i) \in Int
            /\ \A p \in 1 .. Upto(i) : stacks'[h.act][p] = stacks[h.act][p]
        BY <1>1, <1>4, <1>14, <3>2, BelowTop, SMTT(30)
      <4>2. h.base <= Upto(i)
        BY Each
      <4> QED
        BY <2>1, <4>1, <4>2
    <3>3. i = n \/ i < n
      BY <1>1, LastOrBefore
    <3> QED
      BY <3>1, <3>2, <3>3
  <2> QED
    BY <2>1, <2>2, SamePrefix
<1> QED
  BY <1>3, <1>6, <1>8, <1>9, <1>10, <1>2, <1>12, <1>13 DEF Core

\* The innermost call, not of a sub, ends, and leaves what is at or below the height b.
EndsOver(ok, b) ==
  /\ frames # << >> /\ Top.op # "sub" /\ ok \in BOOLEAN
  /\ frames' = Front(frames)
  /\ stacks' \in Seq(Seq(Value)) /\ Over(stacks, stacks', b)
  /\ Top.base <= Len(Last(stacks'))
  /\ b = Top.base \/ (b = Top.base - 1 /\ ~ok)
  /\ ok /\ Top.no \notin spoilt => Len(Last(stacks')) = Top.base
  /\ spoilt' = IF Len(frames) > 1 /\ frames[Len(frames) - 1].at = "fetch"
                    /\ (~ok \/ Top.no \in spoilt)
               THEN spoilt \cup {frames[Len(frames) - 1].no} ELSE spoilt
  /\ UNCHANGED <<begun, aborted>>

LEMMA EndKeeps ==
  ASSUME Core, NEW ok, NEW b, EndsOver(ok, b)
  PROVE  Core' /\ (b = Top.base => KeptBelow)
<1> DEFINE n == Len(frames)
           m == Len(stacks)
           k == n - 1
<1>1. /\ n \in Nat \ {0} /\ Top = frames[n] /\ Top.act = m /\ Top.base \in Nat
      /\ m \in Nat \ {0} /\ Len(stacks') = m
      /\ DOMAIN frames = 1 .. n /\ frames # << >>
  BY FrameTypes, TopFacts DEF Over, EndsOver
<1>2. /\ frames' \in Seq(Frame) /\ Len(frames') = k /\ DOMAIN frames' = 1 .. k
      /\ \A i \in 1 .. k : frames'[i] = frames[i]
  <2>1. frames \in Seq(Frame) /\ frames' = Front(frames) /\ frames # << >>
    BY DEF Core, StackTypes, EndsOver
  <2>2. frames' \in Seq(Frame) /\ Len(frames') = k /\ \A i \in 1 .. k : frames'[i] = frames[i]
    BY <2>1, FrontFacts
  <2> QED
    BY <2>2, LenProperties
<1>3. /\ stacks' # << >> /\ stacks' \in Seq(Seq(Value)) /\ Last(stacks') = stacks'[m]
      /\ Len(Last(stacks')) \in Nat
  <2>1. stacks' \in Seq(Seq(Value))
    BY DEF EndsOver
  <2>2. stacks' # << >>
    BY <1>1, EmptySeq
  <2> QED
    BY <1>1, <2>1, <2>2, LastStack
<1>4. /\ Top.base <= Len(Last(stacks')) /\ Over(stacks, stacks', b) /\ b \in Int
      /\ b = Top.base \/ (b = Top.base - 1 /\ Top.op # "sub")
  BY <1>1 DEF EndsOver
<1>5. spoilt \subseteq spoilt' /\ spoilt' \subseteq 1 .. begun
  <2>1. CASE n > 1
    <3>1. frames[k].no \in 1 .. begun
      BY <1>1, <2>1, FrameTypes
    <3> QED
      BY <3>1 DEF EndsOver, Core, StackTypes
  <2>2. CASE ~(n > 1)
    BY <2>2 DEF EndsOver, Core, StackTypes
  <2> QED
    BY <2>1, <2>2
<1>6. ASSUME k \in 1 .. k
      PROVE  /\ frames[k].act = m /\ frames[k].at \in {"perl", "fetch"}
             /\ Upto(k) = Top.base /\ k + 1 = n /\ k < n
  <2>1. k + 1 = n /\ k \in 1 .. n /\ k < n
    BY <1>1, <1>6
  <2>2. Linked(k)
    BY <1>6, <2>1, Each
  <2>3. Top.op # "sub"
    BY DEF EndsOver
  <2> HIDE DEF k
  <2> QED
    BY <1>1, <2>1, <2>2, <2>3 DEF Linked, Upto
<1>7. StackTypes'
  <2>1. Frame' = Frame /\ Value' = Value
    BY <1>1 DEF Frame, Value, EndsOver
  <2>2. frames' # << >> => Top'.act = m
    <3>1. frames' # << >> => k \in 1 .. k
      BY <1>2, EmptySeq
    <3> QED
      BY <1>2, <1>6, <3>1 DEF Top, Last
  <2>3. UNCHANGED <<begun, aborted>>
    BY DEF EndsOver
  <2> HIDE DEF k
  <2> QED
    BY <1>1, <1>2, <1>3, <1>5, <2>1, <2>2, <2>3 DEF StackTypes, Core
<1>8. \A i \in 1 .. k : i \in 1 .. n /\ i < n /\ i \in 1 .. n - 1
  BY <1>1
<1>9. Nested'
  BY <1>2, <1>8, InOrder DEF Nested
<1>10. \A i \in 1 .. k - 1 : Linked(i)'
  <2> SUFFICES ASSUME NEW i \in 1 .. k - 1 PROVE Linked(i)'
    OBVIOUS
  <2>1. i \in 1 .. k /\ i + 1 \in 1 .. k /\ i \in 1 .. n /\ i \in 1 .. n - 1
    BY <1>1
  <2>2. Linked(i)
    BY <2>1, Each
  <2> HIDE DEF k
  <2> QED
    BY <1>2, <2>1, <2>2 DEF Linked
<1>11. frames' # << >> => frames'[1].op # "sub"
  <2>1. frames' # << >> => 1 \in 1 .. k
    BY <1>2, EmptySeq
  <2> QED
    BY <1>1, <1>2, <2>1 DEF Core
<1>12. ASSUME NEW i \in 1 .. k
       PROVE  LET h == frames[i]
              IN /\ h.base <= Len(stacks'[h.act])
                 /\ b = Top.base \/ h.act < m =>
                      \A p \in 1 .. Upto(i) : stacks'[h.act][p] = stacks[h.act][p]
                 /\ frames[i + 1].op = "sub" => Len(stacks'[h.act]) = Len(stacks[h.act])
  BY <1>1, <1>3, <1>4, <1>8, BelowTop
<1>17. k \in Nat
  BY <1>1
<1>18. ASSUME NEW i \in 1 .. k
       PROVE  /\ \A j \in i .. k : j \in 1 .. k
              /\ \A j \in i .. n : j \in i .. k \/ j = n
              /\ i = k \/ i < k
  <2>1. n = k + 1
    BY <1>1
  <2> HIDE DEF k
  <2> QED
    BY <1>17, <2>1
\* If the call is spoilt, or fails, what is below it on its stack is not clean.
<1>19. ASSUME NEW i \in 1 .. k, Clean(i)'
       PROVE  \A j \in i .. k : frames[j].act = frames[i].act => frames[j].no \notin spoilt'
  <2>1. \A j \in i .. k : frames'[j] = frames[j]
    BY <1>2, <1>18
  <2>2. frames'[i] = frames[i]
    BY <1>2
  <2> HIDE DEF k
  <2> QED
    BY <1>2, <1>19, <2>1, <2>2 DEF Clean
<1>15. ASSUME NEW i \in 1 .. k, Clean(i)', frames[i].act < m
       PROVE  Clean(i)
  <2>1. frames[n].act # frames[i].act
    BY <1>1, <1>15
  <2> HIDE DEF k
  <2> QED
    BY <1>5, <1>15, <1>18, <1>19, <2>1 DEF Clean
<1>16. ASSUME NEW i \in 1 .. k, Clean(i)', frames[i].act = m
       PROVE  \/ frames[i].op = "sub" /\ frames[i].at = "perl" /\ i = k
              \/ b = Top.base /\ Clean(i) /\ Len(Last(stacks')) = Top.base
  <2>1. k \in 1 .. k /\ k \in i .. k /\ k \in 1 .. n /\ n > 1
    BY <1>1
  <2>2. frames[k].act = m /\ frames[k].at \in {"perl", "fetch"}
    BY <1>6, <2>1
  <2>3. CASE frames[k].at = "perl"
    <3>1. frames[k].op = "sub"
      BY <2>1, <2>3, FrameTypes, Each DEF Holding, StageOf, Frame, Finders
    <3>2. i = k \/ i < k
      BY <1>18
    <3>3. ~(i < k)
      BY <1>1, <1>8, <1>16, <2>1, <2>2, <3>1, InOrder
    <3> QED
      BY <2>3, <3>1, <3>2, <3>3
  <2>4. CASE frames[k].at = "fetch"
    <3>1. \A j \in i .. k : frames[j].act = frames[i].act => frames[j].no \notin spoilt'
      BY <1>16, <1>19
    <3>2. frames[k].no \notin spoilt'
      BY <1>16, <2>1, <2>2, <3>1
    <3>3. ok /\ Top.no \notin spoilt
      BY <2>1, <2>4, <3>2 DEF EndsOver
    <3>4. b = Top.base /\ Len(Last(stacks')) = Top.base
      BY <3>3 DEF EndsOver
    <3> HIDE DEF k
    <3>6. Clean(i)
      BY <1>1, <1>5, <1>18, <3>1, <3>3 DEF Clean
    <3> QED
      BY <3>4, <3>6
  <2> QED
    BY <2>2, <2>3, <2>4
<1>13. ASSUME NEW i \in 1 .. k PROVE Holding(i)'
  <2> DEFINE h == frames[i]
             u == Upto(i)
             held == stacks[h.act]
             holds == stacks'[h.act]
  <2>1. /\ frames'[i] = h /\ h.base \in Nat /\ Height(h) \in Nat /\ u \in Int
        /\ StageOf(h) /\ h.base + Height(h) <= u /\ h.act \in 1 .. m
        /\ Clean(i) => Held(h, held, u)
    BY <1>2, <1>8, FrameTypes, Each DEF Holding
  <2>2. ASSUME Clean(i), \A p \in 1 .. u : holds[p] = held[p] PROVE Held(h, holds, u)
    <3>1. u <= u
      BY <2>1
    <3> HIDE DEF h, u, held, holds
    <3> QED
      BY <2>1, <2>2, <3>1, HeldBelow
  <2>3. CASE i < k
    <3>1. h.base <= Len(holds)
      BY <1>12
    <3>2. Upto(i)' = u
      <4>1. i + 1 \in 1 .. k /\ i < n
        BY <1>1, <2>3
      <4>2. frames[i + 1].op = "sub" => Len(holds) = Len(held)
        BY <1>12
      <4> HIDE DEF k
      <4> QED
        BY <1>2, <2>1, <2>3, <4>1, <4>2 DEF Upto
    <3>3. ASSUME Clean(i)' PROVE Held(h, holds, u)
      <4>1. CASE h.act < m
        BY <1>12, <1>15, <2>2, <3>3, <4>1
      <4>2. CASE h.act = m
        <5>1. b = Top.base /\ Clean(i)
          BY <1>16, <2>3, <3>3, <4>2
        <5> QED
          BY <1>12, <2>2, <5>1
      <4> QED
        BY <1>1, <2>1, <4>1, <4>2
    <3> HIDE DEF u
    <3> QED
      BY <2>1, <3>1, <3>2, <3>3 DEF Holding
  <2>4. CASE i = k
    <3>1. h.act = m /\ h.at \in {"perl", "fetch"} /\ u = Top.base
      BY <1>6, <2>4
    <3>2. Upto(i)' = Len(Last(stacks')) /\ Len(holds) = Len(Last(stacks'))
      BY <1>2, <1>3, <2>1, <2>4, <3>1 DEF Upto
    <3>3. h.base + Height(h) <= Len(Last(stacks'))
      BY <1>1, <1>3, <1>4, <2>1, <3>1
    <3>4. h.base <= Len(holds)
      BY <1>3, <2>1, <3>2, <3>3, SMTT(30)
    <3>5. ASSUME Clean(i)' PROVE Held(h, holds, Len(Last(stacks')))
      <4>1. CASE h.op = "sub" /\ h.at = "perl"
        BY <4>1 DEF Held, KeepsFirst
      <4>2. CASE b = Top.base /\ Clean(i) /\ Len(Last(stacks')) = Top.base
        BY <1>12, <2>2, <3>1, <4>2
      <4> QED
        BY <1>16, <3>1, <3>5, <4>1, <4>2
    <3> HIDE DEF u
    <3> QED
      BY <2>1, <3>2, <3>3, <3>4, <3>5 DEF Holding
  <2> QED
    BY <1>18, <2>3, <2>4
<1>14. ASSUME b = Top.base PROVE KeptBelow
  <2> SUFFICES ASSUME NEW i \in 1 .. k
               PROVE  SubSeq(stacks'[frames[i].act], 1, frames[i].base)
                        = SubSeq(stacks[frames[i].act], 1, frames[i].base)
    BY <1>2 DEF KeptBelow
  <2> DEFINE h == frames[i]
  <2>1. h.base \in Nat /\ Upto(i) \in Int /\ h.base <= Upto(i)
    BY <1>8, FrameTypes, Each
  <2>2. \A p \in 1 .. Upto(i) : stacks'[h.act][p] = stacks[h.act][p]
    BY <1>12, <1>14
  <2> HIDE DEF h
  <2>3. \A p \in 1 .. h.base : stacks'[h.act][p] = stacks[h.act][p]
    BY <2>1, <2>2
  <2> QED
    BY <2>1, <2>3, SamePrefix DEF h
<1> QED
  BY <1>2, <1>7, <1>9, <1>10, <1>11, <1>13, <1>14 DEF Core

\* The types of earlier calls hold of later ones, and of more stacks.
LEMMA TypesGrow ==
  ASSUME Core, begun' = begun + 1, Len(stacks') \in Nat, Len(stacks) <= Len(stacks')
  PROVE  /\ Value \subseteq Value' /\ Frame \subseteq Frame'
         /\ stacks \in Seq(Seq(Value')) /\ frames \in Seq(Frame')
         /\ spoilt \subseteq 1 .. begun'
<1>1. begun \in Nat /\ Len(stacks) \in Nat
  BY FrameTypes
<1>2. Value \subseteq Value' /\ Frame \subseteq Frame'
  <2>1. 1 .. begun \subseteq 1 .. begun' /\ 1 .. Len(stacks) \subseteq 1 .. Len(stacks')
    BY <1>1
  <2> QED
    BY <2>1 DEF Value, Frame
<1>3. Seq(Value) \subseteq Seq(Value')
  BY <1>2, SeqMonotonic
<1>4. stacks \in Seq(Seq(Value')) /\ frames \in Seq(Frame')
  BY <1>2, <1>3, SeqMonotonic DEF Core, StackTypes
<1>5. spoilt \subseteq 1 .. begun'
  <2>1. spoilt \subseteq 1 .. begun
    BY DEF Core, StackTypes
  <2> QED
    BY <1>1, <2>1
<1> QED
  BY <1>2, <1>4, <1>5

\* Perl code makes another call, which has made the stacks ss so far.
NewEntry(op, at) ==
  [no |-> begun + 1, op |-> op, at |-> at, ok |-> TRUE, act |-> Len(stacks),
   base |-> Len(Stack), deep |-> 0]

EntersWith(op, at) ==
  /\ begun < MaxCalls /\ begun' = begun + 1
  /\ At \in {"program", "perl", "fetch"} /\ op # "sub"
  /\ frames' = Append(frames, NewEntry(op, at))
  /\ NewEntry(op, at) \in Frame'
  /\ stacks' \in Seq(Seq(Value')) /\ Over(stacks, stacks', Len(Stack))
  /\ StageOf(NewEntry(op, at))
  /\ Held(NewEntry(op, at), Last(stacks'), Len(Last(stacks')))
  /\ UNCHANGED <<spoilt, aborted>>

LEMMA EntryKeeps ==
  ASSUME Core, NEW op, NEW at, EntersWith(op, at)
  PROVE  Core' /\ KeptBelow
<1> DEFINE n == Len(frames)
           m == Len(stacks)
           f == NewEntry(op, at)
<1>0. n \in Nat
  BY FrameTypes
<1>1. /\ n \in Nat /\ m \in Nat \ {0} /\ Len(stacks') = m /\ DOMAIN frames = 1 .. n
      /\ Stack = stacks[m] /\ Len(Stack) \in Nat /\ begun \in Nat /\ begun' = begun + 1
  BY FrameTypes DEF Over, EntersWith
<1>2. /\ f.act = m /\ f.base = Len(Stack) /\ f.op = op /\ f.no = begun + 1
  BY DEF NewEntry
<1>3. /\ f \in Frame' /\ frames' = Append(frames, f) /\ op # "sub"
      /\ begun' \in 0 .. MaxCalls
      /\ spoilt' = spoilt /\ aborted' = aborted
      /\ stacks' \in Seq(Seq(Value'))
      /\ Len(stacks') = Len(stacks)
      /\ \A k \in 1 .. m - 1 : stacks'[k] = stacks[k]
      /\ \A p \in 1 .. Len(Stack) : stacks'[m][p] = Stack[p]
      /\ Len(Stack) <= Len(stacks'[m])
  <2>1. /\ f \in Frame' /\ frames' = Append(frames, f) /\ op # "sub"
        /\ spoilt' = spoilt /\ aborted' = aborted
        /\ stacks' \in Seq(Seq(Value')) /\ begun < MaxCalls
        /\ Over(stacks, stacks', Len(Stack))
    BY DEF EntersWith
  <2>2. begun' \in 0 .. MaxCalls
    BY <1>1, <2>1, EntriesAssumption
  <2> HIDE DEF f
  <2> QED
    BY <1>1, <2>1, <2>2 DEF Over
<1>4. StageOf(f) /\ Held(f, Last(stacks'), Len(Last(stacks')))
  BY DEF EntersWith
<1>5. n > 0 => Top = frames[n] /\ Top.act = m /\ frames[n].at \in {"perl", "fetch"}
  <2>1. n > 0 => frames # << >>
    BY EmptySeq
  <2>2. n > 0 => Top = frames[n] /\ Top.act = m
    BY <2>1, TopFacts
  <2>3. n > 0 => At = Top.at
    BY <2>1 DEF At
  <2>4. n > 0 => Top.at # "program"
    <3>1. n > 0 => frames[n] \in Frame
      BY <1>1, FrameTypes
    <3> QED
      BY <2>2, <3>1 DEF Frame
  <2> QED
    BY <2>2, <2>3, <2>4 DEF EntersWith
<1>6. /\ stacks' # << >> /\ Last(stacks') = stacks'[m] /\ Len(Last(stacks')) \in Nat
  <2>1. stacks' # << >>
    BY <1>1, EmptySeq
  <2> QED
    BY <1>1, <1>3, <2>1, LastStack
<1> HIDE DEF f
<1>7. /\ frames' \in Seq(Frame') /\ Len(frames') = n + 1 /\ frames' # << >>
      /\ frames'[n + 1] = f /\ \A i \in 1 .. n : frames'[i] = frames[i]
  <2>1. frames \in Seq(Frame')
    BY <1>1, TypesGrow
  <2> QED
    BY <1>3, <2>1, AppendProperties
<1>8. DOMAIN frames' = 1 .. n + 1
  BY <1>7, LenProperties
<1>9. StackTypes'
  <2>1. Top'.act = Len(stacks')
    BY <1>1, <1>2, <1>7 DEF Top, Last
  <2>2. spoilt' \subseteq 1 .. begun'
    BY <1>1, <1>3, TypesGrow
  <2>3. aborted' \in BOOLEAN
    BY <1>3 DEF Core, StackTypes
  <2> QED
    BY <1>3, <1>6, <1>7, <2>1, <2>2, <2>3 DEF StackTypes
<1>10. \A i \in 1 .. n : frames[i].act <= m /\ (frames[i].act = m => frames[i].base <= Len(Stack))
  BY <1>1, FrameTypes, Each
<1>11. Nested'
  <2> SUFFICES ASSUME NEW i \in 1 .. n + 1, NEW j \in 1 .. n + 1, i < j
               PROVE  /\ frames'[i].act <= frames'[j].act
                      /\ frames'[i].act = frames'[j].act => frames'[i].base <= frames'[j].base
                      /\ frames'[j].op = "sub" => frames'[i].act < frames'[j].act
    BY <1>8 DEF Nested
  <2>1. i \in 1 .. n
    BY <1>1
  <2>2. CASE j = n + 1
    BY <1>2, <1>3, <1>7, <1>10, <2>1, <2>2
  <2>3. CASE j \in 1 .. n
    BY <1>7, <2>1, <2>3, InOrder
  <2>4. j = n + 1 \/ j \in 1 .. n
    BY <1>1
  <2> QED
    BY <2>2, <2>3, <2>4
<1>12. ASSUME NEW i \in 1 .. n PROVE Linked(i)'
  <2>1. CASE i = n
    <3>1. n > 0
      BY <1>1
    <3> QED
      BY <1>2, <1>3, <1>5, <1>7, <2>1, <3>1 DEF Linked
  <2>2. CASE i \in 1 .. n - 1
    <3>1. i + 1 \in 1 .. n
      BY <1>1, <2>2
    <3> QED
      BY <1>7, <2>2, <3>1, Each DEF Linked
  <2>3. i = n \/ i \in 1 .. n - 1
    BY <1>0
  <2> QED
    BY <2>1, <2>2, <2>3
<1>13. frames'[1].op # "sub"
  <2>1. CASE n = 0
    BY <1>2, <1>3, <1>7, <2>1
  <2>2. CASE n > 0
    <3>1. frames # << >> /\ 1 \in 1 .. n
      BY <1>1, <2>2, EmptySeq
    <3> QED
      BY <1>7, <3>1 DEF Core
  <2> QED
    BY <1>1, <2>1, <2>2
<1>14. ASSUME NEW i \in 1 .. n + 1, i = n + 1 PROVE Holding(i)'
  <2>1. Upto(i)' = Len(Last(stacks'))
    <3>1. ~(i < Len(frames')) /\ frames'[i] = f
      BY <1>0, <1>7, <1>14
    <3> QED
      BY <1>2, <1>6, <3>1 DEF Upto
  <2>2. f.base + Height(f) = Len(Last(stacks'))
    BY <1>2, <1>3, <1>4 DEF Held
  <2>3. Len(Stack) <= Len(stacks'[f.act]) /\ stacks'[f.act] = Last(stacks')
    BY <1>2, <1>3, <1>6
  <2>4. f.base + Height(f) <= Len(Last(stacks'))
    BY <1>6, <2>2
  <2> QED
    BY <1>2, <1>4, <1>7, <1>14, <2>1, <2>3, <2>4 DEF Holding
\* What was on the stacks is still there.
<1>15. ASSUME NEW i \in 1 .. n
       PROVE  LET h == frames[i]
              IN /\ h.base <= Len(stacks'[h.act])
                 /\ \A p \in 1 .. Len(stacks[h.act]) : stacks'[h.act][p] = stacks[h.act][p]
                 /\ h.act < m => Len(stacks'[h.act]) = Len(stacks[h.act])
  <2> DEFINE h == frames[i]
  <2>1. h.act \in 1 .. m /\ h.base <= Len(stacks[h.act]) /\ h.base \in Nat
    BY FrameTypes, Each
  <2> HIDE DEF h
  <2> DEFINE Same == /\ h.base <= Len(stacks'[h.act])
                     /\ \A p \in 1 .. Len(stacks[h.act]) :
                          stacks'[h.act][p] = stacks[h.act][p]
                     /\ h.act < m => Len(stacks'[h.act]) = Len(stacks[h.act])
  <2>2. ASSUME h.act = m PROVE Same
    <3>1. Len(Stack) \in Nat /\ Len(stacks'[m]) \in Nat /\ m \in Nat
      BY <1>1, <1>6
    <3> QED
      BY <1>1, <1>3, <2>1, <2>2, <3>1
  <2>3. ASSUME h.act \in 1 .. m - 1 PROVE Same
    BY <1>3, <2>1, <2>3
  <2>4. h.act = m \/ h.act \in 1 .. m - 1
    BY <1>1, <2>1
  <2> QED
    BY <2>2, <2>3, <2>4 DEF h
<1>16. ASSUME NEW i \in 1 .. n PROVE Upto(i)' = Upto(i) /\ Upto(i) <= Len(stacks[frames[i].act])
  <2>1. CASE i = n
    BY <1>1, <1>2, <1>3, <1>5, <1>7, <2>1 DEF Upto
  <2>2. CASE i \in 1 .. n - 1
    <3> DEFINE j == i + 1
    <3>1. j \in 1 .. n /\ i < n /\ i < j
      BY <1>1, <2>2
    <3>2. /\ frames[i].act \in 1 .. m /\ frames[j].act \in 1 .. m
          /\ Len(stacks[frames[i].act]) \in Nat
      BY <3>1, FrameTypes
    <3>3. Linked(i) /\ frames[j].base <= Len(stacks[frames[j].act])
      BY <2>2, <3>1, Each
    <3>4. CASE frames[j].op = "sub"
      <4>1. frames[i].act < m
        BY <3>2, <3>3, <3>4 DEF Linked
      <4>2. Len(stacks'[frames[i].act]) = Len(stacks[frames[i].act])
        BY <1>15, <4>1
      <4> QED
        BY <1>7, <3>1, <3>2, <3>4, <4>2 DEF Upto
    <3>5. CASE frames[j].op # "sub"
      <4>1. frames[j].act = frames[i].act
        BY <3>3, <3>5 DEF Linked
      <4> QED
        BY <1>7, <3>1, <3>3, <3>5, <4>1 DEF Upto
    <3> QED
      BY <3>4, <3>5
  <2>3. i = n \/ i \in 1 .. n - 1
    BY <1>0
  <2> QED
    BY <2>1, <2>2, <2>3
<1>17. ASSUME NEW i \in 1 .. n PROVE Holding(i)'
  <2> DEFINE h == frames[i]
             u == Upto(i)
             b == Len(stacks[h.act])
             held == stacks[h.act]
             holds == stacks'[h.act]
  <2>1. /\ frames'[i] = h /\ h.base \in Nat /\ u \in Int /\ b \in Int
        /\ StageOf(h) /\ h.base + Height(h) <= u
        /\ Clean(i) => Held(h, held, u)
    BY <1>7, FrameTypes, Each DEF Holding
  <2>2. Upto(i)' = u /\ u <= b
    BY <1>16
  <2>3. h.base <= Len(holds) /\ \A p \in 1 .. b : holds[p] = held[p]
    BY <1>15
  <2>5. Clean(i)' => Clean(i)
    <3>1. \A j \in i .. n : j \in 1 .. n /\ j \in i .. n + 1
      BY <1>0
    <3> QED
      BY <1>3, <1>7, <3>1 DEF Clean
  <2> HIDE DEF h, u, b, held, holds
  <2>4. Clean(i)' => Held(h, holds, u)
    BY <2>1, <2>2, <2>3, <2>5, HeldBelow
  <2> QED
    BY <2>1, <2>2, <2>3, <2>4 DEF Holding, holds
<1>18. KeptBelow
  <2> SUFFICES ASSUME NEW i \in 1 .. n
               PROVE  SubSeq(stacks'[frames[i].act], 1, frames[i].base)
                        = SubSeq(stacks[frames[i].act], 1, frames[i].base)
    BY <1>1 DEF KeptBelow
  <2> DEFINE h == frames[i]
  <2>1. h.base \in Nat /\ Len(stacks[h.act]) \in Nat /\ h.base <= Len(stacks[h.act])
    BY FrameTypes, Each
  <2>2. \A p \in 1 .. Len(stacks[h.act]) : stacks'[h.act][p] = stacks[h.act][p]
    BY <1>15
  <2> HIDE DEF h
  <2>3. \A p \in 1 .. h.base : stacks'[h.act][p] = stacks[h.act][p]
    BY <2>1, <2>2
  <2> QED
    BY <2>1, <2>3, SamePrefix DEF h
<1>19. \A i \in 1 .. n + 1 : Holding(i)'
  <2>1. \A i \in 1 .. n + 1 : i = n + 1 \/ i \in 1 .. n
    BY <1>0
  <2> QED
    BY <1>14, <1>17, <2>1
<1>20. Len(frames') - 1 = n
  BY <1>1, <1>7
<1> QED
  BY <1>8, <1>9, <1>11, <1>12, <1>13, <1>18, <1>19, <1>20 DEF Core

\* A script calls a sub.
LEMMA CallSubKeeps ==
  ASSUME Core, CallSub
  PROVE  Core' /\ KeptBelow
<1> DEFINE n == Len(frames)
           m == Len(stacks)
           f == [no |-> begun + 1, op |-> "sub", at |-> "convert", ok |-> TRUE,
                 act |-> m + 1, base |-> 0, deep |-> 0]
<1>0. n \in Nat /\ m \in Nat \ {0} /\ begun \in Nat /\ DOMAIN frames = 1 .. n
  BY FrameTypes
<1>20. n \in Nat
  BY <1>0
<1>1. PICK args \in {<< >>, <<[of |-> begun + 1, is |-> "argument"]>>} :
        Called("sub", "convert", Append(stacks, args))
  BY DEF CallSub
<1>2. begun' = begun + 1 /\ begun' \in 0 .. MaxCalls /\ stacks' = Append(stacks, args)
  BY <1>0, <1>1, EntriesAssumption DEF Called
<1>3. args \in Seq(Value')
  <2>1. [of |-> begun + 1, is |-> "argument"] \in Value'
    BY <1>0, <1>2 DEF Value
  <2>2. CASE args = << >>
    BY <2>2, EmptySeq
  <2>3. CASE args = <<[of |-> begun + 1, is |-> "argument"]>>
    <3> DEFINE v == [of |-> begun + 1, is |-> "argument"]
    <3>1. v \in Value' /\ args = <<v>>
      BY <2>1, <2>3
    <3> HIDE DEF v
    <3> QED
      BY <3>1
  <2> QED
    BY <2>2, <2>3
<1>4. /\ Value \subseteq Value' /\ stacks \in Seq(Seq(Value'))
      /\ stacks' \in Seq(Seq(Value')) /\ Len(stacks') = m + 1
      /\ stacks' # << >>
      /\ \A k \in 1 .. m : stacks'[k] = stacks[k]
  <2>1. Seq(Value) \subseteq Seq(Value') /\ Value \subseteq Value'
    <3>1. 1 .. begun \subseteq 1 .. begun'
      BY <1>0, <1>2
    <3>2. Value \subseteq Value'
      BY <3>1 DEF Value
    <3> QED
      BY <3>2, SeqMonotonic
  <2>2. stacks \in Seq(Seq(Value'))
    BY <2>1, SeqMonotonic DEF Core, StackTypes
  <2>3. /\ Append(stacks, args) \in Seq(Seq(Value')) /\ Append(stacks, args) # << >>
        /\ Len(Append(stacks, args)) = m + 1
        /\ \A k \in 1 .. m : Append(stacks, args)[k] = stacks[k]
    <3> DEFINE S == Seq(Value')
    <3>1. stacks \in Seq(S) /\ args \in S
      BY <1>3, <2>2
    <3> HIDE DEF S
    <3>2. /\ Append(stacks, args) \in Seq(S) /\ Append(stacks, args) # << >>
          /\ Len(Append(stacks, args)) = m + 1
          /\ \A k \in 1 .. m : Append(stacks, args)[k] = stacks[k]
      BY <3>1, AppendProperties
    <3> QED
      BY <3>2 DEF S
  <2> QED
    BY <1>2, <2>1, <2>2, <2>3
<1>5. frames' = Append(frames, f) /\ UNCHANGED <<spoilt, aborted>>
  <2>1. Len(Append(stacks, args)) = m + 1
    BY <1>2, <1>4
  <2> QED
    BY <1>1, <2>1 DEF Called
<1>6. /\ frames # << >> /\ Top = frames[n] /\ Top.act = m
      /\ frames[n].at \in {"script", "global", "property", "convert", "loop"}
  <2>1. frames # << >> /\ At = Top.at
    BY DEF CallSub, ScriptRuns, At
  <2>2. Top = frames[n] /\ Top.act = m
    BY <2>1, TopFacts
  <2> QED
    BY <2>1, <2>2 DEF CallSub, ScriptRuns
<1>7. /\ f.act = m + 1 /\ f.base = 0 /\ f.op = "sub" /\ f.at = "convert" /\ f.deep = 0
      /\ f \in Frame'
  BY <1>0, <1>2, <1>4, EntriesAssumption DEF Frame
<1> HIDE DEF f
<1>8. /\ frames' \in Seq(Frame') /\ Len(frames') = n + 1 /\ frames' # << >>
      /\ frames'[n + 1] = f /\ \A i \in 1 .. n : frames'[i] = frames[i]
  <2>1. frames \in Seq(Frame')
    BY <1>0, <1>2, <1>4, TypesGrow
  <2> QED
    BY <1>5, <1>7, <2>1, AppendProperties
<1>9. DOMAIN frames' = 1 .. n + 1
  BY <1>8, LenProperties
<1>10. StackTypes'
  <2>1. Top'.act = Len(stacks')
    BY <1>4, <1>7, <1>8 DEF Top, Last
  <2>2. spoilt' \subseteq 1 .. begun'
    BY <1>0, <1>2, <1>4, <1>5, TypesGrow
  <2>3. aborted' \in BOOLEAN
    BY <1>5 DEF Core, StackTypes
  <2> QED
    BY <1>2, <1>4, <1>8, <2>1, <2>2, <2>3 DEF StackTypes
<1>11. \A i \in 1 .. n : frames[i].act \in 1 .. m
  BY FrameTypes
<1>12. Nested'
  <2> SUFFICES ASSUME NEW i \in 1 .. n + 1, NEW j \in 1 .. n + 1, i < j
               PROVE  /\ frames'[i].act <= frames'[j].act
                      /\ frames'[i].act = frames'[j].act => frames'[i].base <= frames'[j].base
                      /\ frames'[j].op = "sub" => frames'[i].act < frames'[j].act
    BY <1>9 DEF Nested
  <2>1. i \in 1 .. n
    BY <1>0
  <2>2. CASE j = n + 1
    BY <1>0, <1>7, <1>8, <1>11, <2>1, <2>2
  <2>3. CASE j \in 1 .. n
    BY <1>8, <2>1, <2>3, InOrder
  <2>4. j = n + 1 \/ j \in 1 .. n
    BY <1>0
  <2> QED
    BY <2>2, <2>3, <2>4
<1>13. ASSUME NEW i \in 1 .. n PROVE Linked(i)'
  <2>1. CASE i = n
    BY <1>6, <1>7, <1>8, <2>1 DEF Linked
  <2>2. CASE i \in 1 .. n - 1
    <3>1. i + 1 \in 1 .. n
      BY <1>0, <2>2
    <3> QED
      BY <1>8, <2>2, <3>1, Each DEF Linked
  <2>3. i = n \/ i \in 1 .. n - 1
    BY <1>20
  <2> QED
    BY <2>1, <2>2, <2>3
<1>14. frames'[1].op # "sub"
  <2>1. n > 0 /\ 1 \in 1 .. n
    BY <1>0, <1>6, EmptySeq DEF Core, StackTypes
  <2> QED
    BY <1>6, <1>8, <2>1 DEF Core
<1>15. ASSUME NEW i \in 1 .. n + 1 PROVE Holding(i)'
  <2>1. CASE i \in 1 .. n
    <3> DEFINE h == frames[i]
    <3>1. frames'[i] = h /\ stacks'[h.act] = stacks[h.act]
      BY <1>4, <1>8, <1>11, <2>1
    <3>2. Holding(i)
      BY <2>1, Each
    <3>3. Upto(i)' = Upto(i)
      <4>1. CASE i = n
        BY <1>0, <1>7, <1>8, <3>1, <4>1 DEF Upto
      <4>2. CASE i \in 1 .. n - 1
        <5>1. i + 1 \in 1 .. n /\ i < n /\ i < n + 1
          BY <1>0, <4>2
        <5> QED
          BY <1>8, <3>1, <5>1 DEF Upto
      <4>3. i = n \/ i \in 1 .. n - 1
        BY <1>20, <2>1
      <4> QED
        BY <4>1, <4>2, <4>3
    <3>4. Clean(i)' => Clean(i)
      <4>1. \A j \in i .. n : j \in 1 .. n /\ j \in i .. n + 1
        BY <1>20, <2>1
      <4> QED
        BY <1>5, <1>8, <2>1, <4>1 DEF Clean
    <3> QED
      BY <3>1, <3>2, <3>3, <3>4 DEF Holding
  <2>2. CASE i = n + 1
    <3>1. ~(i < Len(frames')) /\ frames'[i] = f
      BY <1>0, <1>8, <2>2
    <3>2. Upto(i)' = Len(stacks'[m + 1]) /\ Len(stacks'[m + 1]) \in Nat
      <4>1. stacks'[m + 1] \in Seq(Value')
        BY <1>0, <1>4, ElementOfSeq
      <4> QED
        BY <1>7, <3>1, <4>1, LenProperties DEF Upto
    <3>3. Height(f) = 0 /\ StageOf(f)
      BY <1>7 DEF Height, StageOf
    <3>4. Held(f, stacks'[m + 1], Upto(i)')
      BY <1>7 DEF Held, KeepsFirst
    <3> QED
      BY <1>7, <3>1, <3>2, <3>3, <3>4 DEF Holding
  <2>3. i = n + 1 \/ i \in 1 .. n
    BY <1>0
  <2> QED
    BY <2>1, <2>2, <2>3
<1>16. KeptBelow
  BY <1>0, <1>4, <1>8, <1>11 DEF KeptBelow
<1>17. Len(frames') - 1 = n
  BY <1>0, <1>8
<1> QED
  BY <1>9, <1>10, <1>12, <1>13, <1>14, <1>15, <1>16, <1>17 DEF Core

\* A sub is over, and its stack with it.
SubOver ==
  /\ frames # << >> /\ Top.op = "sub"
  /\ frames' = Front(frames) /\ stacks' = Front(stacks)
  /\ UNCHANGED <<begun, spoilt, aborted>>

LEMMA SubOverKeeps ==
  ASSUME Core, SubOver
  PROVE  Core' /\ KeptBelow
<1> DEFINE n == Len(frames)
           m == Len(stacks)
           k == n - 1
<1>1. /\ n \in Nat \ {0} /\ Top = frames[n] /\ Top.act = m /\ m \in Nat \ {0}
      /\ DOMAIN frames = 1 .. n /\ frames # << >> /\ Top.op = "sub"
  BY FrameTypes, TopFacts DEF SubOver
<1>2. n # 1
  BY <1>1 DEF Core
<1>3. k \in Nat \ {0} /\ k + 1 = n /\ k < n /\ k \in 1 .. n - 1 /\ k \in 1 .. n
  BY <1>1, <1>2
<1>20. k \in Nat
  BY <1>3
<1>4. /\ frames[k].act = m - 1
      /\ frames[k].at \in {"script", "global", "property", "convert", "loop"}
  <2>1. Linked(k)
    BY <1>3, Each
  <2>2. frames[k].act \in 1 .. m
    BY <1>3, FrameTypes
  <2> HIDE DEF k
  <2> QED
    BY <1>1, <1>3, <2>1, <2>2 DEF Linked
<1>5. m - 1 \in Nat \ {0}
  BY <1>1, <1>3, <1>4, FrameTypes, SMTT(30)
<1>6. /\ stacks' \in Seq(Seq(Value)) /\ Len(stacks') = m - 1 /\ stacks' # << >>
      /\ \A i \in 1 .. m - 1 : stacks'[i] = stacks[i]
  <2>1. stacks \in Seq(Seq(Value)) /\ stacks # << >> /\ stacks' = Front(stacks)
    BY DEF Core, StackTypes, SubOver
  <2>2. /\ stacks' \in Seq(Seq(Value)) /\ Len(stacks') = m - 1
        /\ \A i \in 1 .. m - 1 : stacks'[i] = stacks[i]
    BY <2>1, FrontFacts
  <2> QED
    BY <1>5, <2>2, EmptySeq
<1>7. /\ Len(frames') = k /\ DOMAIN frames' = 1 .. k /\ frames' \in Seq(Frame)
      /\ \A i \in 1 .. k : frames'[i] = frames[i]
  <2>1. frames \in Seq(Frame) /\ frames' = Front(frames) /\ frames # << >>
    BY DEF Core, StackTypes, SubOver
  <2>2. frames' \in Seq(Frame) /\ Len(frames') = k /\ \A i \in 1 .. k : frames'[i] = frames[i]
    BY <2>1, FrontFacts
  <2> QED
    BY <2>2, LenProperties
<1>8. \A i \in 1 .. k : i \in 1 .. n /\ i < n /\ i \in 1 .. n - 1
  BY <1>1
<1>9. \A i \in 1 .. k : frames[i].act \in 1 .. m - 1
  <2> SUFFICES ASSUME NEW i \in 1 .. k PROVE frames[i].act \in 1 .. m - 1
    OBVIOUS
  <2>1. frames[i].act \in 1 .. m
    BY <1>8, FrameTypes
  <2>2. frames[i].act < m
    BY <1>1, <1>8, InOrder
  <2> QED
    BY <1>1, <2>1, <2>2
<1>10. UNCHANGED <<begun, spoilt, aborted>>
  BY DEF SubOver
<1>11. StackTypes'
  <2>1. Value' = Value
    BY <1>10 DEF Value
  <2>2. \A i \in 1 .. k : frames'[i] \in Frame'
    <3> SUFFICES ASSUME NEW i \in 1 .. k PROVE frames'[i] \in Frame'
      OBVIOUS
    <3>1. frames[i] \in Frame /\ frames[i].act \in 1 .. m - 1
      BY <1>8, <1>9, FrameTypes
    <3> QED
      BY <1>6, <1>7, <1>10, <3>1 DEF Frame
  <2>3. frames' \in Seq(Frame')
    <3>1. frames' \in [1 .. k -> Frame']
      BY <1>7, <2>2, LenProperties
    <3> QED
      BY <1>3, <3>1, SeqDef
  <2>4. Top'.act = m - 1
    BY <1>3, <1>4, <1>7 DEF Top, Last
  <2> HIDE DEF k
  <2> QED
    BY <1>6, <1>10, <2>1, <2>3, <2>4 DEF StackTypes, Core
<1>12. Nested'
  BY <1>7, <1>8, InOrder DEF Nested
<1>13. \A i \in 1 .. k - 1 : Linked(i)'
  <2> SUFFICES ASSUME NEW i \in 1 .. k - 1 PROVE Linked(i)'
    OBVIOUS
  <2>1. i \in 1 .. k /\ i + 1 \in 1 .. k /\ i \in 1 .. n /\ i \in 1 .. n - 1
    BY <1>1
  <2>2. Linked(i)
    BY <2>1, Each
  <2> HIDE DEF k
  <2> QED
    BY <1>7, <2>1, <2>2 DEF Linked
<1>14. frames'[1].op # "sub"
  <2>1. 1 \in 1 .. k
    BY <1>3
  <2> QED
    BY <1>1, <1>7, <2>1 DEF Core
<1>15. ASSUME NEW i \in 1 .. k PROVE Holding(i)'
  <2>1. frames'[i] = frames[i] /\ stacks'[frames[i].act] = stacks[frames[i].act]
    BY <1>6, <1>7, <1>9
  <2>2. Holding(i)
    BY <1>8, Each
  <2>3. Upto(i)' = Upto(i)
    <3>1. CASE i = k
      <4> HIDE DEF k
      <4> QED
        BY <1>1, <1>3, <1>7, <2>1, <3>1 DEF Upto
    <3>2. CASE i < k
      <4>1. i + 1 \in 1 .. k /\ i < n
        BY <1>1, <3>2
      <4> HIDE DEF k
      <4> QED
        BY <1>7, <2>1, <3>2, <4>1 DEF Upto
    <3>3. i = k \/ i < k
      BY <1>20
    <3> QED
      BY <3>1, <3>2, <3>3
  <2>4. Clean(i)' => Clean(i)
    <3>2. frames[i].act # m
      BY <1>1, <1>9
    <3>4. k + 1 = n
      BY <1>3
    <3> HIDE DEF k
    <3>1. \A j \in i .. n : j = n \/ j \in i .. k
      BY <1>20, <3>4
    <3>3. \A j \in i .. k : j \in 1 .. k
      BY <1>20
    <3> QED
      BY <1>1, <1>7, <1>10, <3>1, <3>2, <3>3 DEF Clean
  <2> QED
    BY <2>1, <2>2, <2>3, <2>4 DEF Holding
<1>16. KeptBelow
  BY <1>1, <1>6, <1>7, <1>8, <1>9 DEF KeptBelow
<1> QED
  BY <1>7, <1>11, <1>12, <1>13, <1>14, <1>15, <1>16 DEF Core

\* The program goes on: every call is over.
AllOver ==
  /\ frames' = << >> /\ stacks' \in Seq(Seq(Value)) /\ stacks' # << >>
  /\ aborted' \in BOOLEAN
  /\ UNCHANGED <<begun, spoilt>>

LEMMA AllOverKeeps ==
  ASSUME Core, AllOver
  PROVE  Core' /\ KeptBelow
<1>1. frames' = << >> /\ Len(frames') = 0 /\ DOMAIN frames' = {}
  BY EmptySeq DEF AllOver
<1>2. Value' = Value
  BY DEF AllOver, Value
<1>3. StackTypes'
  BY <1>1, <1>2, EmptySeq DEF AllOver, StackTypes, Core
<1> QED
  BY <1>1, <1>3 DEF Core, Nested, KeptBelow

-----------------------------------------------------------------------------
(* What each kind of step does to the properties of the answers.           *)

LEMMA EndingStays ==
  ASSUME Inv, last' = last, spoilt \subseteq spoilt', begun' \in {begun, begun + 1}
  PROVE  Ending'
<1>1. Value \subseteq Value'
  <2>1. begun \in Nat
    BY FrameTypes DEF Inv
  <2>2. 1 .. begun \subseteq 1 .. begun'
    BY <2>1
  <2> QED
    BY <2>2 DEF Value
<1>2. Nothing' = Nothing
  BY DEF Nothing
<1> QED
  BY <1>1, <1>2 DEF Inv, Ending, OwnAnswer, Balanced

LEMMA MovesRightly ==
  ASSUME Inv, NEW f, GoesOnAs(f), last' = last
  PROVE  Inv' /\ KeptBelow
<1>1. Ending'
  BY EndingStays DEF GoesOnAs
<1> QED
  BY <1>1, GoesOn DEF Inv

LEMMA EntersRightly ==
  ASSUME Inv, NEW op, NEW at, EntersWith(op, at), last' = last
  PROVE  Inv' /\ KeptBelow
<1>1. Ending'
  BY EndingStays DEF EntersWith
<1> QED
  BY <1>1, EntryKeeps DEF Inv

\* A call ends with got, and with the stacks ss, of which it leaves what is below b.
EndsRightly(ok, got, ss, b) ==
  /\ frames # << >> /\ Top.op # "sub" /\ ok \in BOOLEAN
  /\ ss \in Seq(Seq(Value)) /\ Over(stacks, ss, b)
  /\ Top.base <= Len(Last(ss))
  /\ b = Top.base \/ (b = Top.base - 1 /\ ~ok)
  /\ ok /\ Top.no \notin spoilt => Len(Last(ss)) = Top.base
  /\ \/ got = Nothing
     \/ /\ got \in Value /\ Top.op # "eval"
        /\ Top.no \notin spoilt => got = [of |-> Top.no, is |-> "value"]

LEMMA EndStep ==
  ASSUME Inv, NEW ok, NEW got, NEW ss, NEW b, Ends(ok, got, ss), EndsRightly(ok, got, ss, b)
  PROVE  Inv' /\ (b = Top.base => KeptBelow)
<1>1. /\ frames # << >> /\ Top.act = Len(stacks) /\ Top.base \in Nat /\ Len(stacks) \in Nat \ {0}
      /\ Top.op # "sub" /\ ok \in BOOLEAN
  BY FrameTypes, TopFacts DEF Inv, EndsRightly
<1>2. /\ ss \in Seq(Seq(Value)) /\ Len(ss) = Len(stacks) /\ ss # << >>
      /\ ss[Top.act] = Last(ss) /\ Len(Last(ss)) \in Nat
  <2>1. ss \in Seq(Seq(Value)) /\ Len(ss) = Len(stacks)
    BY DEF EndsRightly, Over
  <2>2. ss # << >>
    BY <1>1, <2>1, EmptySeq
  <2> QED
    BY <1>1, <2>1, <2>2, LastStack
<1>3. stacks' = ss
  BY DEF Ends
<1>5. EndsOver(ok, b)
  BY <1>3 DEF Ends, EndsRightly, EndsOver
<1>6. Core' /\ (b = Top.base => KeptBelow)
  BY <1>5, EndKeeps DEF Inv
<1>7. last' = [no |-> Top.no, op |-> Top.op, ok |-> ok, got |-> got,
               left |-> Len(Last(ss)) - Top.base]
  BY <1>2 DEF Ends
<1>8. spoilt \subseteq spoilt' /\ begun' = begun
  BY DEF Ends
<1>9. Ending'
  <2>1. Value' = Value /\ Nothing' = Nothing
    BY <1>8 DEF Value, Nothing
  <2>2. Top.no \notin spoilt' => Top.no \notin spoilt
    BY <1>8
  <2>3. last'.got \in Value' \cup {Nothing'} /\ last'.left \in Int
    BY <1>1, <1>2, <1>7, <2>1 DEF EndsRightly
  <2>4. Balanced'
    BY <1>1, <1>2, <1>7, <2>2 DEF EndsRightly, Balanced
  <2>5. OwnAnswer'
    BY <1>7, <2>1, <2>2 DEF EndsRightly, OwnAnswer
  <2> QED
    BY <2>3, <2>4, <2>5 DEF Ending
<1> QED
  BY <1>6, <1>9 DEF Inv

-----------------------------------------------------------------------------
(* The top frame, in an action.                                            *)

Ops == Finders \cup {"class", "eval", "dispatch", "set", "remove", "sub"}
Ats == {"perl", "ready", "script", "global", "property", "convert", "fetch", "loop"}

LEMMA InOpFacts ==
  ASSUME Inv, NEW ops, NEW at, at # "program", InOp(ops, at)
  PROVE  /\ Core /\ frames # << >> /\ Top.op \in ops /\ Top.at = at
         /\ Top \in Frame /\ Top.act = Len(stacks) /\ Top.base \in Nat
         /\ Top.no \in 1 .. begun /\ Top.op \in Ops /\ Top.ok \in BOOLEAN
         /\ stacks \in Seq(Seq(Value)) /\ stacks # << >>
         /\ Stack = Last(stacks) /\ Len(Stack) \in Nat /\ Stack \in Seq(Value)
         /\ Top.base + Height(Top) <= Len(Stack) /\ StageOf(Top)
         /\ Top.no \notin spoilt => Held(Top, Stack, Len(Stack))
<1>1. Core /\ frames # << >> /\ Top.op \in ops /\ Top.at = at
  BY DEF Inv, InOp, At
<1>2. stacks \in Seq(Seq(Value)) /\ stacks # << >>
  BY <1>1 DEF Core, StackTypes
<1>3. Stack = Last(stacks) /\ Len(Stack) \in Nat /\ Stack \in Seq(Value)
  BY <1>2, LastStack DEF Stack
<1>4. /\ Top \in Frame /\ Top.act = Len(stacks) /\ Top.base \in Nat
      /\ Top.no \in 1 .. begun
      /\ Top.base + Height(Top) <= Len(Stack) /\ StageOf(Top)
      /\ Top.no \notin spoilt => Held(Top, Stack, Len(Stack))
  BY <1>1, TopFacts
<1>5. Top.op \in Ops /\ Top.ok \in BOOLEAN
  BY <1>4 DEF Frame, Ops
<1> QED
  BY <1>1, <1>2, <1>3, <1>4, <1>5

LEMMA OwnIsValue ==
  ASSUME Core, frames # << >>,
         NEW kind \in {"argument", "answer", "error", "text", "stash", "object", "value", "key",
                      "part"}
  PROVE  Own(kind) \in Value /\ Own(kind).of = Top.no /\ Own(kind).is = kind
  BY TopFacts DEF Own, Value

\* One thing after another on top of a stack.
LEMMA OnTop ==
  ASSUME NEW S, NEW ss \in Seq(Seq(S)), ss # << >>, NEW tt, NEW uu \in Seq(Seq(S)),
         uu # << >>, NEW a \in Int, NEW b \in Int, a <= b, Over(ss, tt, a), Over(tt, uu, b)
  PROVE  Over(ss, uu, a)
<1>1. Len(ss) \in Nat \ {0} /\ Len(uu) = Len(ss)
  BY LastStack DEF Over
<1>2. Len(uu[Len(ss)]) \in Nat
  BY <1>1, LastStack
<1> QED
  BY <1>1, <1>2, OverOver

LEMMA OverBase ==
  ASSUME NEW S, NEW ss \in Seq(Seq(S)), ss # << >>, NEW uu \in Seq(Seq(S)),
         uu # << >>, NEW a \in Int, NEW b \in Int, b <= a, Over(ss, uu, a)
  PROVE  Over(ss, uu, b)
<1>1. Len(ss) \in Nat \ {0} /\ Len(uu) = Len(ss)
  BY LastStack DEF Over
<1>2. Len(uu[Len(ss)]) \in Nat
  BY <1>1, LastStack
<1> QED
  BY <1>1, <1>2, OverLess

-----------------------------------------------------------------------------
(* What an entry makes of the stacks, one push or pop after another.       *)

\* tt are the stacks, but for what is above the height b of the last.
Made(tt, b) ==
  /\ tt \in Seq(Seq(Value)) /\ tt # << >>
  /\ b \in Int /\ Len(Last(tt)) \in Nat /\ b <= Len(Last(tt))
  /\ Over(stacks, tt, b)
  /\ \A p \in 1 .. b : Last(tt)[p] = Stack[p]

LEMMA MadeNow ==
  ASSUME Core, frames # << >>
  PROVE  Made(stacks, Len(Stack)) /\ Last(stacks) = Stack
<1>1. stacks \in Seq(Seq(Value)) /\ stacks # << >> /\ Stack = Last(stacks)
  BY DEF Core, StackTypes, Stack
<1>2. Len(Stack) \in Nat /\ Stack = stacks[Len(stacks)]
  BY FrameTypes
<1>3. Over(stacks, stacks, Len(Stack))
  BY <1>2, OverSame
<1> QED
  BY <1>1, <1>2, <1>3 DEF Made

LEMMA MadeLess ==
  ASSUME Core, NEW tt, NEW a \in Int, NEW b \in Int, Made(tt, a), b <= a
  PROVE  Made(tt, b)
<1>1. stacks \in Seq(Seq(Value)) /\ stacks # << >>
  BY DEF Core, StackTypes
<1>2. Over(stacks, tt, b)
  BY <1>1, OverBase DEF Made
<1> QED
  BY <1>2 DEF Made

LEMMA MadeThen ==
  ASSUME Core, NEW tt, NEW uu, NEW a \in Int, NEW b \in Int, Made(tt, a), a <= b,
         uu \in Seq(Seq(Value)), uu # << >>, Over(tt, uu, b)
  PROVE  Made(uu, a) /\ \A p \in 1 .. b : Last(uu)[p] = Last(tt)[p]
<1>1. /\ stacks \in Seq(Seq(Value)) /\ stacks # << >> /\ Len(stacks) \in Nat
      /\ tt \in Seq(Seq(Value)) /\ tt # << >>
  BY FrameTypes DEF Core, StackTypes, Made
<1>2. Over(stacks, uu, a)
  BY <1>1, OnTop DEF Made
<1>3. Len(tt) = Len(stacks) /\ Len(uu) = Len(stacks)
  BY <1>2 DEF Made, Over
<1>4. Last(tt) = tt[Len(stacks)] /\ Last(uu) = uu[Len(stacks)] /\ Len(Last(uu)) \in Nat
  BY <1>1, <1>3, LastStack
<1>5. a <= Len(Last(uu)) /\ \A p \in 1 .. b : Last(uu)[p] = Last(tt)[p]
  BY <1>2, <1>3, <1>4 DEF Over
<1> QED
  BY <1>2, <1>4, <1>5 DEF Made

LEMMA MadeByPush ==
  ASSUME Core, NEW tt, NEW b, Made(tt, b), NEW v \in Value,
         NEW uu, uu = Push(tt, v)
  PROVE  /\ Made(uu, b)
         /\ Len(Last(uu)) = Len(Last(tt)) + 1 /\ Last(uu)[Len(Last(tt)) + 1] = v
         /\ \A p \in 1 .. Len(Last(tt)) : Last(uu)[p] = Last(tt)[p]
<1>1. tt \in Seq(Seq(Value)) /\ tt # << >> /\ b \in Int /\ Len(Last(tt)) \in Nat /\ b <= Len(Last(tt))
  BY DEF Made
<1>2. /\ uu \in Seq(Seq(Value)) /\ uu # << >> /\ Over(tt, uu, Len(Last(tt)))
      /\ Len(Last(uu)) = Len(Last(tt)) + 1 /\ Last(uu)[Len(Last(tt)) + 1] = v
  BY <1>1, PushFacts
<1> QED
  BY <1>1, <1>2, MadeThen

LEMMA MadeByPop ==
  ASSUME Core, NEW tt, NEW b, Made(tt, b), NEW n \in Nat, n <= Len(Last(tt)), NEW c \in Int,
         c <= b, c <= Len(Last(tt)) - n, NEW uu, uu = Pop(tt, n)
  PROVE  /\ Made(uu, c)
         /\ Len(Last(uu)) = Len(Last(tt)) - n
         /\ \A p \in 1 .. Len(Last(tt)) - n : Last(uu)[p] = Last(tt)[p]
<1>1. tt \in Seq(Seq(Value)) /\ tt # << >> /\ b \in Int /\ Len(Last(tt)) \in Nat
  BY DEF Made
<1>2. /\ uu \in Seq(Seq(Value)) /\ uu # << >> /\ Over(tt, uu, Len(Last(tt)) - n)
      /\ Len(Last(uu)) = Len(Last(tt)) - n
  <2>1. n \in 0 .. Len(Last(tt))
    BY <1>1
  <2> QED
    BY <1>1, <2>1, PopFacts
<1>3. Made(tt, c)
  BY <1>1, MadeLess
<1> QED
  BY <1>1, <1>2, <1>3, MadeThen, SMTT(30)

LEMMA MadeByFirstPop ==
  ASSUME Core, frames # << >>, NEW n \in Nat, NEW b \in Nat, b <= Len(Stack) - n,
         NEW tt, tt = Pop(stacks, n)
  PROVE  /\ Made(tt, b) /\ Len(Last(tt)) = Len(Stack) - n
         /\ \A p \in 1 .. Len(Stack) - n : Last(tt)[p] = Stack[p]
<1> DEFINE h == Len(Stack)
<1>1. Made(stacks, h) /\ Last(stacks) = Stack /\ h \in Nat
  BY MadeNow, FrameTypes
<1>2. n <= h /\ b <= h /\ b <= h - n /\ b \in Int
  BY <1>1
<1> HIDE DEF h
<1>3. h = Len(Last(stacks))
  BY <1>1 DEF h
<1>4. /\ Made(tt, b) /\ Len(Last(tt)) = Len(Last(stacks)) - n
      /\ \A p \in 1 .. Len(Last(stacks)) - n : Last(tt)[p] = Last(stacks)[p]
  BY <1>1, <1>2, <1>3, MadeByPop
<1> QED
  BY <1>1, <1>4

LEMMA MadeByText ==
  ASSUME Core, NEW tt, NEW b, Made(tt, b), Last(tt) # << >>, NEW c \in Int,
         c <= b, c < Len(Last(tt)), NEW uu, uu = ToText(tt)
  PROVE  /\ Made(uu, c)
         /\ Len(Last(uu)) = Len(Last(tt))
         /\ Last(uu)[Len(Last(tt))].of = Last(tt)[Len(Last(tt))].of
         /\ Last(uu)[Len(Last(tt))].is = "text"
         /\ \A p \in 1 .. Len(Last(tt)) - 1 : Last(uu)[p] = Last(tt)[p]
<1>1. tt \in Seq(Seq(Value)) /\ tt # << >> /\ b \in Int /\ Len(Last(tt)) \in Nat
  BY DEF Made
<1>2. /\ uu \in Seq(Seq(Value)) /\ uu # << >> /\ Over(tt, uu, Len(Last(tt)) - 1)
      /\ Len(Last(uu)) = Len(Last(tt))
      /\ Last(uu)[Len(Last(tt))].of = Last(tt)[Len(Last(tt))].of
      /\ Last(uu)[Len(Last(tt))].is = "text"
  BY <1>1, ToTextFacts
<1>3. Made(tt, c) /\ c <= Len(Last(tt)) - 1
  BY <1>1, MadeLess
<1> QED
  BY <1>1, <1>2, <1>3, MadeThen

\* What a call meets at the start of a step.
LEMMA AtTop ==
  ASSUME Inv, NEW ops, NEW at, at # "program", InOp(ops, at)
  PROVE  /\ Core /\ frames # << >> /\ Top.op \in ops /\ Top.at = at
         /\ Made(stacks, Len(Stack)) /\ Last(stacks) = Stack /\ Len(Stack) \in Nat
         /\ Top.base \in Nat /\ Top.base + Height(Top) <= Len(Stack)
         /\ Top.no \notin spoilt => Held(Top, Stack, Len(Stack))
         /\ StageOf(Top) /\ Top.ok \in BOOLEAN
  BY InOpFacts, MadeNow

\* f is the top frame with another stage.
Turned(f, op, at, ok) ==
  /\ f \in Frame /\ f.no = Top.no /\ f.act = Top.act /\ f.base = Top.base
  /\ f.op = op /\ f.at = at /\ f.ok = ok /\ f.deep = 0

LEMMA TurnedTo ==
  ASSUME Core, frames # << >>, Top.at # "fetch", NEW at \in Ats
  PROVE  Turned([Top EXCEPT !.at = at], Top.op, at, Top.ok)
<1>1. Top \in Frame /\ Top.deep = 0
  BY TopFacts DEF StageOf
<1> QED
  BY <1>1 DEF Turned, Frame, Ats

\* A call goes on as f.
StepsOn(f) ==
  /\ frames # << >> /\ Goes(f)
  /\ f \in Frame /\ f.no = Top.no /\ f.act = Top.act /\ f.base = Top.base
  /\ f.op = "sub" <=> Top.op = "sub"
  /\ Made(stacks', Top.base)
  /\ UNCHANGED <<begun, spoilt, aborted>>
  /\ StageOf(f) /\ Top.base + Height(f) <= Len(Last(stacks'))
  /\ Top.no \notin spoilt => Held(f, Last(stacks'), Len(Last(stacks')))

LEMMA StepOn ==
  ASSUME NEW f, StepsOn(f)
  PROVE  GoesOnAs(f)
  BY DEF StepsOn, GoesOnAs, Made

-----------------------------------------------------------------------------
(* The actions, one by one.                                                *)

LEMMA Places ==
  ASSUME NEW h \in Nat, NEW b \in Nat, NEW e \in Nat, NEW d \in Nat, NEW n \in Int,
         b + e <= h, n = h + d - e, d > 0, e > 0
  PROVE  /\ h - e + 1 \in 1 .. h /\ h - e + 1 <= n
         /\ h = b + e => b + 1 \in 1 .. h /\ b + 1 <= n
OBVIOUS

LEMMA SamePlace ==
  ASSUME NEW h \in Int, NEW e \in Int, NEW d \in Int, NEW n \in Int, n = h + d - e
  PROVE  n - d + 1 = h - e + 1
OBVIOUS

\* The conversion of a value to JavaScript goes one array or hash deeper, or is done with
\* one, and has tt then.
LEMMA FetchGoesOn ==
  ASSUME Inv, At = "fetch", Top.deep \in Nat, NEW d \in Nat, d <= MaxLevels,
         NEW tt, tt \in Seq(Seq(Value)), Made(tt, Top.base),
         Len(Last(tt)) = Len(Stack) + d - Top.deep, d \in {Top.deep - 1, Top.deep + 1}, d > 0,
         \A p \in 1 .. Len(Stack) : p <= Len(Last(tt)) => Last(tt)[p] = Stack[p],
         Top.deep = 0 => Last(tt)[Len(Stack) + 1] = [of |-> Top.no, is |-> "value"],
         Goes([Top EXCEPT !.deep = d]), Moves(tt)
  PROVE  Inv' /\ KeptBelow
<1> DEFINE f == [Top EXCEPT !.deep = d]
           h == Len(Stack)
<1>1. /\ Core /\ frames # << >> /\ Top.at = "fetch"
      /\ h \in Nat /\ Top.base \in Nat /\ Top.base + Height(Top) <= h
      /\ Top.no \notin spoilt => Held(Top, Stack, h)
      /\ StageOf(Top) /\ Top \in Frame
  <2>1. Core /\ frames # << >> /\ Top.at = "fetch"
    BY DEF Inv, At
  <2> QED
    BY <2>1, TopFacts, FrameTypes
<1>2. Height(Top) = Top.deep /\ Top.op \in {"set", "sub"}
  <2>1. Top.op \in Finders \cup {"class", "eval", "dispatch", "set", "remove", "sub"}
    BY <1>1 DEF Frame
  <2> QED
    BY <1>1, <2>1 DEF Height, StageOf, Finders
<1>3. /\ f \in Frame /\ f.no = Top.no /\ f.act = Top.act /\ f.base = Top.base
      /\ f.op = Top.op /\ f.at = "fetch" /\ f.deep = d
  <2>1. d \in 0 .. MaxLevels
    BY EntriesAssumption
  <2> QED
    BY <1>1, <2>1 DEF Frame
<1> HIDE DEF f, h
<1>4. StageOf(f) /\ Height(f) = d
  BY <1>2, <1>3 DEF StageOf, Height, Finders
<1>5. Top.base + d <= Len(Last(tt)) /\ Len(Last(tt)) = h + d - Top.deep
  BY <1>1, <1>2 DEF h
<1>6. ASSUME Top.no \notin spoilt
      PROVE  Held(f, Last(tt), Len(Last(tt)))
  <2> DEFINE own == [of |-> Top.no, is |-> "value"]
  <2>1. Held(Top, Stack, h)
    BY <1>1, <1>6
  <2> HIDE DEF own
  <2>2. f.op = "set" => h = Top.base + Top.deep
    BY <1>2, <1>3, <2>1 DEF Held
  <2>7. /\ h \in Nat /\ Top.base \in Nat /\ Top.base + Top.deep <= h
        /\ Len(Last(tt)) = h + d - Top.deep /\ Len(Last(tt)) \in Int
    BY <1>1, <1>2, <1>5
  <2>8. ASSUME Top.deep > 0
        PROVE  /\ h - Top.deep + 1 \in 1 .. h /\ h - Top.deep + 1 <= Len(Last(tt))
               /\ h = Top.base + Top.deep =>
                    Top.base + 1 \in 1 .. h /\ Top.base + 1 <= Len(Last(tt))
    BY <2>7, <2>8, Places
  <2>3. f.op = "set" => Last(tt)[Top.base + 1] = own
    <3>1. CASE Top.deep = 0
      BY <1>1, <2>2, <3>1 DEF own, h
    <3>2. CASE Top.deep > 0
      <4>1. f.op = "set" => Stack[Top.base + 1] = own
        BY <1>3, <2>1, <3>2 DEF Held, KeepsFirst, own
      <4>2. f.op = "set" => Top.base + 1 \in 1 .. h /\ Top.base + 1 <= Len(Last(tt))
        BY <2>2, <2>8, <3>2
      <4> QED
        BY <4>1, <4>2 DEF h
    <3> QED
      BY <3>1, <3>2
  <2>4. f.op = "sub" => Last(tt)[Len(Last(tt)) - d + 1] = own
    <3>1. Len(Last(tt)) - d + 1 = h - Top.deep + 1
      BY <2>7, SamePlace
    <3>2. CASE Top.deep = 0
      BY <1>1, <3>1, <3>2 DEF own, h
    <3>3. CASE Top.deep > 0
      <4>1. f.op = "sub" => Stack[h - Top.deep + 1] = own
        BY <1>1, <1>3, <2>1, <3>3 DEF Held, own
      <4>2. h - Top.deep + 1 \in 1 .. h /\ h - Top.deep + 1 <= Len(Last(tt))
        BY <2>8, <3>3
      <4> QED
        BY <3>1, <4>1, <4>2 DEF h
    <3> QED
      BY <3>2, <3>3
  <2>5. f.op = "set" => Len(Last(tt)) = f.base + Height(f)
    BY <1>1, <1>3, <1>4, <1>5, <2>2
  <2>6. f.op \in {"set", "sub"}
    BY <1>2, <1>3
  <2> QED
    BY <1>3, <2>3, <2>4, <2>5, <2>6 DEF Held, KeepsFirst, own
<1>7. Goes(f) /\ stacks' = tt /\ UNCHANGED <<begun, last, spoilt, aborted>>
  BY DEF Moves, f
<1>8. StepsOn(f)
  BY <1>1, <1>3, <1>4, <1>5, <1>6, <1>7 DEF StepsOn
<1> QED
  BY <1>7, <1>8, StepOn, MovesRightly

LEMMA KeptByDeeper ==
  ASSUME Inv, Deeper
  PROVE  Inv' /\ KeptBelow
<1> DEFINE h == Len(Stack)
           d == Top.deep + 1
           v == Own(IF Top.deep = 0 THEN "value" ELSE "part")
           tt == Push(stacks, v)
<1>1. /\ Core /\ frames # << >> /\ At = "fetch" /\ Made(stacks, h) /\ Last(stacks) = Stack
      /\ h \in Nat /\ Top.base \in Nat /\ Top.base <= h /\ Top.deep \in Nat
  <2>1. Core /\ frames # << >> /\ At = "fetch"
    BY DEF Inv, Deeper, At
  <2>2. StageOf(Top) /\ Top.base + Height(Top) <= h /\ Height(Top) \in Nat /\ Top.base \in Nat
    BY <2>1, TopFacts
  <2>3. h \in Nat
    BY <2>1, FrameTypes
  <2> QED
    BY <2>1, <2>2, <2>3, MadeNow DEF StageOf
<1>2. v \in Value /\ (Top.deep = 0 => v = [of |-> Top.no, is |-> "value"])
  BY <1>1, OwnIsValue DEF Own
<1>3. Goes([Top EXCEPT !.deep = d]) /\ Moves(tt) /\ Top.deep < MaxLevels
  BY DEF Deeper
<1>4. d \in Nat /\ d <= MaxLevels /\ d > 0
  BY <1>1, <1>3, EntriesAssumption
<1> HIDE DEF v
<1>5. /\ Made(tt, h) /\ Len(Last(tt)) = h + 1 /\ Last(tt)[h + 1] = v
      /\ \A p \in 1 .. h : Last(tt)[p] = Stack[p]
  BY <1>1, <1>2, MadeByPush
<1> HIDE DEF tt
<1>6. Made(tt, Top.base)
  BY <1>1, <1>5, MadeLess
<1>7. tt \in Seq(Seq(Value))
  BY <1>5 DEF Made
<1>8. /\ d = Top.deep + 1 /\ Len(Last(tt)) = h + d - Top.deep
      /\ \A p \in 1 .. h : p <= Len(Last(tt)) => Last(tt)[p] = Stack[p]
  BY <1>1, <1>5
<1>9. Top.deep = 0 => Last(tt)[h + 1] = [of |-> Top.no, is |-> "value"]
  BY <1>2, <1>5
<1> HIDE DEF d
<1> QED
  BY <1>1, <1>3, <1>4, <1>6, <1>7, <1>8, <1>9, FetchGoesOn

LEMMA KeptByShallower ==
  ASSUME Inv, Shallower
  PROVE  Inv' /\ KeptBelow
<1> DEFINE h == Len(Stack)
           b == Top.base
           d == Top.deep - 1
           tt == Pop(stacks, 1)
<1>1. /\ Core /\ frames # << >> /\ At = "fetch" /\ Top.deep \in Nat /\ Top.deep > 1
      /\ h \in Nat /\ b \in Nat /\ b + Top.deep <= h /\ Top \in Frame
  <2>1. Core /\ frames # << >> /\ At = "fetch" /\ Top.at = "fetch" /\ Top.deep > 1
    BY DEF Inv, Shallower, At
  <2>2. StageOf(Top) /\ b + Height(Top) <= h /\ b \in Nat /\ Top \in Frame
    BY <2>1, TopFacts
  <2>3. h \in Nat
    BY <2>1, FrameTypes
  <2> QED
    BY <2>1, <2>2, <2>3 DEF StageOf, Height
<1>2. d \in Nat /\ d <= MaxLevels /\ d > 0
  BY <1>1, EntriesAssumption DEF Frame
<1>3. Goes([Top EXCEPT !.deep = d]) /\ Moves(tt)
  BY DEF Shallower
<1>4. /\ Made(tt, b) /\ Len(Last(tt)) = h - 1
      /\ \A p \in 1 .. h - 1 : Last(tt)[p] = Stack[p]
  <2>1. b <= h - 1 /\ 1 \in Nat
    BY <1>1
  <2> HIDE DEF b, tt
  <2>2. tt = Pop(stacks, 1)
    BY DEF tt
  <2> QED
    BY <1>1, <2>1, <2>2, MadeByFirstPop
<1> HIDE DEF tt
<1>5. tt \in Seq(Seq(Value))
  BY <1>4 DEF Made
<1>6. \A p \in 1 .. h : p <= Len(Last(tt)) => Last(tt)[p] = Stack[p]
  BY <1>1, <1>4
<1>7. Made(tt, Top.base)
  BY <1>4
<1>8. Len(Last(tt)) = h + d - Top.deep /\ d = Top.deep - 1 /\ Top.deep # 0
  BY <1>1, <1>4
<1> HIDE DEF d
<1> QED
  BY <1>1, <1>2, <1>3, <1>5, <1>6, <1>7, <1>8, FetchGoesOn

\* The conversion of a value is over: the value is on top.
LEMMA FetchedFacts ==
  ASSUME Inv, FetchEnds
  PROVE  LET tt == Fetched
             own == [of |-> Top.no, is |-> "value"]
         IN /\ Core /\ frames # << >> /\ Top.at = "fetch" /\ Top \in Frame
            /\ Top.op \in {"set", "sub"} /\ Top.base \in Nat
            /\ Made(tt, Top.base) /\ Top.base + 1 <= Len(Last(tt))
            /\ Top.no \notin spoilt => Last(tt)[Len(Last(tt))] = own
            /\ Top.op = "set" /\ Top.no \notin spoilt => Len(Last(tt)) = Top.base + 1
<1> DEFINE h == Len(Stack)
           tt == Fetched
           own == [of |-> Top.no, is |-> "value"]
<1>1. /\ Core /\ frames # << >> /\ Top.at = "fetch" /\ Made(stacks, h) /\ Last(stacks) = Stack
      /\ h \in Nat /\ Top.base \in Nat /\ Top.base + Height(Top) <= h /\ Top \in Frame
      /\ StageOf(Top) /\ (Top.no \notin spoilt => Held(Top, Stack, h))
  <2>1. Core /\ frames # << >> /\ Top.at = "fetch"
    BY DEF Inv, FetchEnds, At
  <2> QED
    BY <2>1, TopFacts, FrameTypes, MadeNow
<1>2. /\ Height(Top) = Top.deep /\ Top.op \in {"set", "sub"}
      /\ Top.deep = 0 \/ Top.deep = 1
  <2>1. Top.op \in Finders \cup {"class", "eval", "dispatch", "set", "remove", "sub"}
    BY <1>1 DEF Frame
  <2>2. Height(Top) = Top.deep /\ Top.op \in {"set", "sub"} /\ Top.deep \in Nat
    BY <1>1, <2>1 DEF Height, StageOf, Finders
  <2> QED
    BY <2>2 DEF FetchEnds
<1>3. Top.op = "set" /\ Top.no \notin spoilt => h = Top.base + Top.deep
  BY <1>1, <1>2 DEF Held
<1>4. CASE Top.deep = 0
  <2>1. Own("value") = own /\ Own("value") \in Value
    BY <1>1, OwnIsValue DEF Own
  <2>2. tt = Push(stacks, Own("value"))
    BY <1>4 DEF Fetched
  <2> HIDE DEF tt, own
  <2>3. Made(tt, h) /\ Len(Last(tt)) = h + 1 /\ Last(tt)[h + 1] = own
    BY <1>1, <2>1, <2>2, MadeByPush
  <2>4. Made(tt, Top.base)
    BY <1>1, <1>2, <1>4, <2>3, MadeLess
  <2> QED
    BY <1>1, <1>2, <1>3, <1>4, <2>3, <2>4 DEF tt, own
<1>5. CASE Top.deep = 1
  <2>1. tt = stacks
    BY <1>5 DEF Fetched
  <2>2. Made(tt, Top.base)
    BY <1>1, <1>2, <1>5, <2>1, MadeLess
  <2>3. Top.no \notin spoilt => Stack[h] = own
    <3>1. h - 1 + 1 = h /\ (Top.op = "set" /\ Top.no \notin spoilt => h = Top.base + 1)
      BY <1>1, <1>3, <1>5
    <3> QED
      BY <1>1, <1>2, <1>5, <3>1 DEF Held, KeepsFirst
  <2> QED
    BY <1>1, <1>2, <1>3, <1>5, <2>1, <2>2, <2>3
<1> QED
  BY <1>2, <1>4, <1>5

LEMMA KeptBySubGoes ==
  ASSUME Inv, SubStarts \/ SubReturns
  PROVE  Inv' /\ KeptBelow
<1> DEFINE to == IF Top.at = "convert" THEN "perl" ELSE "fetch"
           f == [Top EXCEPT !.at = to]
<1>1. /\ Core /\ frames # << >> /\ Top.op = "sub" /\ Top.at \in {"convert", "perl"}
      /\ Made(stacks, Len(Stack)) /\ Last(stacks) = Stack /\ Len(Stack) \in Nat
      /\ Top.base \in Nat /\ Top.base + Height(Top) <= Len(Stack)
  <2>1. CASE SubStarts
    BY <2>1, AtTop DEF SubStarts
  <2>2. CASE SubReturns
    BY <2>2, AtTop DEF SubReturns
  <2> QED
    BY <2>1, <2>2
<1>2. Turned(f, "sub", to, Top.ok)
  BY <1>1, TurnedTo DEF Ats
<1>3. Goes(f) /\ stacks' = stacks /\ UNCHANGED <<begun, last, spoilt, aborted>>
  <2>1. CASE SubStarts
    <3>1. Top.at = "convert"
      BY <2>1, AtTop DEF SubStarts
    <3> QED
      BY <2>1, <3>1 DEF SubStarts, GoesTo, Moves
  <2>2. CASE SubReturns
    <3>1. Top.at = "perl"
      BY <2>2, AtTop DEF SubReturns
    <3> QED
      BY <2>2, <3>1 DEF SubReturns, GoesTo, Moves
  <2> QED
    BY <2>1, <2>2
<1>4. Height(Top) = 0
  BY <1>1 DEF Height
<1>5. Made(stacks, Top.base)
  BY <1>1, <1>4, MadeLess
<1>6. to \in {"perl", "fetch"}
  OBVIOUS
<1> HIDE DEF f, to
<1>7. StageOf(f) /\ Height(f) = 0
  BY <1>2, <1>6 DEF Turned, StageOf, Height, Finders
<1>8. Held(f, Stack, Len(Stack))
  BY <1>2, <1>6 DEF Turned, Held, KeepsFirst
<1>9. StepsOn(f)
  BY <1>1, <1>2, <1>3, <1>4, <1>5, <1>7, <1>8 DEF StepsOn, Turned
<1> QED
  BY <1>3, <1>9, StepOn, MovesRightly

LEMMA KeptBySubEnds ==
  ASSUME Inv, SubAnswers \/ SubThrows
  PROVE  Inv' /\ KeptBelow
<1>1. Core /\ frames # << >> /\ Top.op = "sub" /\ SubOver
  <2>1. CASE SubAnswers
    BY <2>1, AtTop DEF SubAnswers, SubOver
  <2>2. CASE SubThrows
    BY <2>2, AtTop DEF SubThrows, SubOver, Moves, StacksUnwound
  <2> QED
    BY <2>1, <2>2
<1>2. Core' /\ KeptBelow
  BY <1>1, SubOverKeeps
<1>3. Ending'
  <2>1. CASE SubThrows
    BY <2>1, EndingStays DEF SubThrows, Moves
  <2>2. CASE SubAnswers
    <3> DEFINE tt == Fetched
    <3>1. /\ Made(tt, Top.base) /\ Top.base \in Nat /\ Top.base + 1 <= Len(Last(tt))
          /\ Top.no \notin spoilt => Last(tt)[Len(Last(tt))] = [of |-> Top.no, is |-> "value"]
      BY <2>2, FetchedFacts DEF SubAnswers
    <3>4. /\ last' = [no |-> Top.no, op |-> "sub", ok |-> TRUE, got |-> Last(Last(tt)), left |-> 0]
          /\ begun' = begun /\ spoilt' = spoilt
      BY <2>2 DEF SubAnswers
    <3> HIDE DEF tt
    <3> DEFINE got == Last(Last(tt))
    <3>2. got = Last(tt)[Len(Last(tt))] /\ got \in Value
      <4>1. Last(tt) \in Seq(Value) /\ Len(Last(tt)) \in 1 .. Len(Last(tt))
        BY <3>1, LastStack DEF Made
      <4> QED
        BY <4>1, ElementOfSeq DEF Last
    <3>3. Top.no \notin spoilt => got = [of |-> Top.no, is |-> "value"]
      BY <3>1, <3>2
    <3> HIDE DEF got
    <3>7. last' = [no |-> Top.no, op |-> "sub", ok |-> TRUE, got |-> got, left |-> 0]
      BY <3>4 DEF got
    <3>5. Value' = Value /\ Nothing' = Nothing
      BY <3>4 DEF Value, Nothing
    <3> HIDE DEF Top, Stack
    <3>6. OwnAnswer' /\ Balanced'
      BY <3>3, <3>4, <3>7 DEF OwnAnswer, Balanced
    <3> QED
      BY <3>2, <3>5, <3>6, <3>7 DEF Ending
  <2> QED
    BY <2>1, <2>2
<1> QED
  BY <1>2, <1>3 DEF Inv

\* The stacks with what a conversion to Perl has left.
LEMMA WithPartsFacts ==
  ASSUME Core, frames # << >>, NEW n \in Parts
  PROVE  Made(WithParts(n), Len(Stack))
<1> DEFINE v == Own("part")
           parts == [i \in 1 .. n |-> v]
           t == Stack \o parts
           tt == WithParts(n)
           h == Len(Stack)
           m == Len(stacks)
<1>1. /\ Made(stacks, h) /\ Last(stacks) = Stack /\ h \in Nat
      /\ stacks \in Seq(Seq(Value)) /\ stacks # << >>
      /\ m \in Nat \ {0} /\ Stack = stacks[m] /\ Stack \in Seq(Value)
  <2>1. stacks \in Seq(Seq(Value)) /\ stacks # << >>
    BY DEF Core, StackTypes
  <2>2. Stack \in Seq(Value)
    BY <2>1, LastStack DEF Stack
  <2> QED
    BY <2>1, <2>2, MadeNow, FrameTypes
<1>2. v \in Value
  BY OwnIsValue
<1>3. n \in Nat
  BY EntriesAssumption DEF Parts
<1>4. tt = [stacks EXCEPT ![m] = t]
  BY <1>1 DEF WithParts
<1> HIDE DEF v
<1>5. parts \in Seq(Value) /\ Len(parts) = n
  <2>1. parts \in [1 .. n -> Value]
    BY <1>2
  <2> HIDE DEF parts
  <2>2. parts \in Seq(Value)
    BY <1>3, <2>1, SeqDef
  <2> QED
    BY <1>3, <2>1, <2>2, LenProperties
<1> HIDE DEF parts
<1>6. t \in Seq(Value) /\ Len(t) = h + n /\ \A p \in 1 .. h : t[p] = Stack[p]
  <2> DEFINE s == Stack
  <2>1. s \in Seq(Value) /\ parts \in Seq(Value) /\ Len(s) \in Nat
    BY <1>1, <1>5
  <2> HIDE DEF s
  <2>2. /\ s \o parts \in Seq(Value) /\ Len(s \o parts) = Len(s) + Len(parts)
        /\ \A p \in 1 .. Len(s) : (s \o parts)[p] = s[p]
    <3>1. Len(parts) \in Nat
      BY <1>3, <1>5
    <3>2. /\ s \o parts \in Seq(Value) /\ Len(s \o parts) = Len(s) + Len(parts)
          /\ \A i \in 1 .. Len(s) + Len(parts) :
               (s \o parts)[i] = IF i <= Len(s) THEN s[i] ELSE parts[i - Len(s)]
      BY <2>1, ConcatProperties
    <3>3. \A p \in 1 .. Len(s) : p \in 1 .. Len(s) + Len(parts) /\ p <= Len(s)
      BY <2>1, <3>1
    <3> QED
      BY <3>2, <3>3
  <2> QED
    BY <1>5, <2>2 DEF s
<1> HIDE DEF t, tt
<1>7. /\ tt \in Seq(Seq(Value)) /\ Len(tt) = m /\ tt[m] = t
      /\ \A k \in 1 .. m - 1 : tt[k] = stacks[k]
  BY <1>1, <1>4, <1>6, ReplaceLast
<1>8. tt # << >> /\ Last(tt) = t
  BY <1>1, <1>7, LenProperties, EmptySeq DEF Last
<1> QED
  BY <1>1, <1>3, <1>6, <1>7, <1>8 DEF Made, Over, tt, h

\* Errors that no call within the engine handles.
LEMMA KeptByAllOver ==
  ASSUME Inv,
         \/ SubDies \/ NameAborts \/ RemoveAborts
         \/ ConvertCroaks /\ Top.op = "sub"
  PROVE  Inv' /\ KeptBelow
<1>1. AllOver /\ last' = last
  <2>1. CASE SubDies
    <3>1. Core /\ frames # << >> /\ stacks \in Seq(Seq(Value)) /\ stacks # << >>
      BY <2>1, InOpFacts DEF SubDies
    <3>2. /\ Push(stacks, Own("stash")) \in Seq(Seq(Value))
          /\ Push(stacks, Own("stash")) # << >>
      <4>1. Own("stash") \in Value
        BY <3>1, OwnIsValue
      <4> QED
        BY <3>1, <4>1, PushFacts
    <3> QED
      BY <2>1, <3>1, <3>2 DEF SubDies, Moves, AllOver, Inv, Core, StackTypes
  <2>2. CASE NameAborts \/ RemoveAborts
    BY <2>2 DEF NameAborts, RemoveAborts, Aborts, AllOver, Inv, Core, StackTypes
  <2>3. CASE ConvertCroaks /\ Top.op = "sub"
    <3>1. PICK n \in Parts : InOp({"sub"}, "convert") /\ frames' = << >> /\ Moves(WithParts(n))
      BY <2>3 DEF ConvertCroaks, InOp
    <3>2. Core /\ frames # << >>
      BY <3>1, InOpFacts
    <3>3. WithParts(n) \in Seq(Seq(Value)) /\ WithParts(n) # << >>
      BY <3>2, WithPartsFacts DEF Made
    <3> QED
      BY <3>1, <3>3 DEF Moves, AllOver, Inv, Core, StackTypes
  <2> QED
    BY <2>1, <2>2, <2>3
<1>2. Ending'
  BY <1>1, EndingStays DEF AllOver
<1> QED
  BY <1>1, <1>2, AllOverKeeps DEF Inv

LEMMA KeptByCallSub ==
  ASSUME Inv, CallSub
  PROVE  Inv' /\ KeptBelow
<1>1. last' = last /\ spoilt' = spoilt /\ begun' = begun + 1
  BY DEF CallSub, Called
<1>2. Ending'
  BY <1>1, EndingStays
<1> QED
  BY <1>2, CallSubKeeps DEF Inv

\* Perl code calls what puts nothing on the stack by itself.
LEMMA KeptByEntry ==
  ASSUME Inv, PerlRuns, NEW op \in Ops \ {"sub"}, NEW at \in Ats, Called(op, at, stacks),
         StageOf(NewEntry(op, at)), Height(NewEntry(op, at)) = 0, ~KeepsFirst(NewEntry(op, at))
  PROVE  Inv' /\ KeptBelow
<1> DEFINE f == NewEntry(op, at)
<1>1. /\ Core /\ Len(stacks) \in Nat \ {0} /\ Stack = stacks[Len(stacks)]
      /\ Len(Stack) \in Nat /\ begun \in Nat /\ Last(stacks) = Stack
  BY FrameTypes DEF Inv, Stack
<1>2. begun < MaxCalls /\ begun' = begun + 1 /\ stacks' = stacks /\ last' = last
      /\ UNCHANGED <<spoilt, aborted>> /\ frames' = Append(frames, f)
  BY DEF Called, NewEntry
<1>3. At \in {"program", "perl", "fetch"}
  BY DEF PerlRuns
<1>4. f \in Frame'
  <2>1. 0 \in 0 .. MaxLevels
    BY EntriesAssumption
  <2> QED
    BY <1>1, <1>2, <2>1 DEF NewEntry, Frame, Ops, Ats
<1>5. stacks' \in Seq(Seq(Value'))
  BY <1>1, <1>2, TypesGrow
<1>6. Over(stacks, stacks', Len(Stack))
  BY <1>1, <1>2, OverSame
<1>7. Held(f, Last(stacks'), Len(Last(stacks')))
  <2>1. f.op # "sub" /\ f.base = Len(Stack)
    BY DEF NewEntry
  <2>2. ~(f.op = "eval" /\ f.at = "convert")
    BY DEF Height
  <2> HIDE DEF f
  <2> QED
    BY <1>1, <1>2, <2>1, <2>2 DEF Held, f
<1>8. EntersWith(op, at)
  BY <1>2, <1>3, <1>4, <1>5, <1>6, <1>7 DEF EntersWith
<1> QED
  BY <1>2, <1>8, EntersRightly

LEMMA KeptByEntries ==
  ASSUME Inv, Eval \/ Dispatch \/ (\E op \in Finders : Find(op)) \/ SetName \/ RemoveName
  PROVE  Inv' /\ KeptBelow
<1>1. PerlRuns
  BY DEF Eval, Dispatch, Find, SetName, RemoveName
<1>2. ASSUME NEW op \in Ops \ {"sub"}, NEW at \in Ats, Called(op, at, stacks),
             \/ op = "eval" /\ at = "ready"
             \/ op = "dispatch" /\ at = "script"
             \/ op \in Finders /\ at \in {"global", "script"}
             \/ op = "set" /\ at = "fetch"
             \/ op = "remove" /\ at \in {"ready", "script"}
      PROVE  Inv' /\ KeptBelow
  <2>1. StageOf(NewEntry(op, at)) /\ Height(NewEntry(op, at)) = 0 /\ ~KeepsFirst(NewEntry(op, at))
    BY <1>2 DEF NewEntry, StageOf, Height, KeepsFirst, Finders
  <2> QED
    BY <1>1, <1>2, <2>1, KeptByEntry
<1>3. CASE Eval
  BY <1>2, <1>3 DEF Eval, Ops, Ats
<1>4. CASE Dispatch
  BY <1>2, <1>4 DEF Dispatch, Ops, Ats
<1>5. CASE \E op \in Finders : Find(op)
  BY <1>2, <1>5 DEF Find, Ops, Ats, Finders
<1>6. CASE RemoveName
  BY <1>2, <1>6 DEF RemoveName, Ops, Ats
<1>7. CASE SetName
  BY <1>2, <1>7 DEF SetName, Ops, Ats
<1> QED
  BY <1>3, <1>4, <1>5, <1>6, <1>7

-----------------------------------------------------------------------------
(* Calls that end.                                                         *)

\* A call that ends with the stacks ss, cut or built above its base.
LEMMA KeptByEnd ==
  ASSUME Inv, frames # << >>, NEW ok \in BOOLEAN, NEW got, NEW ss, Ends(ok, got, ss),
         Top.op # "sub", Made(ss, Top.base),
         ok /\ Top.no \notin spoilt => Len(Last(ss)) = Top.base,
         \/ got = Nothing
         \/ /\ got \in Value /\ Top.op # "eval"
            /\ Top.no \notin spoilt => got = [of |-> Top.no, is |-> "value"]
  PROVE  Inv' /\ KeptBelow
<1>1. Top.base \in Nat
  BY TopFacts DEF Inv
<1>2. EndsRightly(ok, got, ss, Top.base)
  BY DEF EndsRightly, Made
<1> QED
  BY <1>2, EndStep

LEMMA KeptByConvertCroaks ==
  ASSUME Inv, ConvertCroaks
  PROVE  Inv' /\ KeptBelow
<1>1. CASE Top.op = "sub"
  BY <1>1, KeptByAllOver
<1>2. CASE Top.op # "sub"
  <2>1. PICK n \in Parts : InOp({"eval", "get"}, "convert") /\ Ends(FALSE, Nothing, WithParts(n))
    BY <1>2 DEF ConvertCroaks, InOp
  <2>2. /\ Core /\ frames # << >> /\ Len(Stack) \in Nat /\ Top.base \in Nat
        /\ Top.base + Height(Top) <= Len(Stack)
    BY <2>1, AtTop
  <2>3. Top.base <= Len(Stack)
    BY <2>2, TopFacts
  <2>4. Made(WithParts(n), Len(Stack))
    BY <2>2, WithPartsFacts
  <2>5. Made(WithParts(n), Top.base)
    BY <2>2, <2>3, <2>4, MadeLess
  <2> QED
    BY <1>2, <2>1, <2>2, <2>5, KeptByEnd
<1> QED
  BY <1>1, <1>2

LEMMA KeptByCompileFails ==
  ASSUME Inv, CompileFails
  PROVE  Inv' /\ KeptBelow
<1> DEFINE h == Len(Stack)
           tt == Push(stacks, Own("text"))
           uu == Push(tt, Own("stash"))
<1>1. /\ Core /\ frames # << >> /\ Top.op = "eval" /\ Top.at = "ready"
      /\ Made(stacks, h) /\ Last(stacks) = Stack /\ h \in Nat
      /\ Top.base \in Nat /\ Top.base <= h
  BY AtTop DEF CompileFails, Height
<1>2. Own("text") \in Value /\ Own("stash") \in Value
  BY <1>1, OwnIsValue
<1>3. Made(tt, h) /\ Len(Last(tt)) = h + 1
  BY <1>1, <1>2, MadeByPush
<1>4. Made(uu, h) /\ Len(Last(uu)) = h + 2
  <2> HIDE DEF tt
  <2>1. Made(uu, h) /\ Len(Last(uu)) = Len(Last(tt)) + 1
    BY <1>1, <1>2, <1>3, MadeByPush
  <2> QED
    BY <1>1, <1>3, <2>1
<1>5. Ends(FALSE, Nothing, uu)
  BY DEF CompileFails
<1> HIDE DEF uu, tt, h
<1>6. Made(uu, Top.base)
  BY <1>1, <1>4, MadeLess
<1> QED
  BY <1>1, <1>5, <1>6, KeptByEnd

\* What the check of an error leaves: two values, and the upper one is shown.
LEMMA CheckedFacts ==
  ASSUME Core, frames # << >>, NEW h, Made(stacks, h), h = Len(Stack), NEW isError \in BOOLEAN,
         NEW uu, uu = Checked(Push(stacks, Own("error")), isError)
  PROVE  /\ Made(uu, h) /\ Len(Last(uu)) = h + 2
         /\ Last(uu)[h + 2].of = Top.no /\ Last(uu)[h + 2].is \in {"text", "stash"}
<1> DEFINE ss == Push(stacks, Own("error"))
<1>1. /\ Own("text") \in Value /\ Own("stash") \in Value /\ Own("error") \in Value
      /\ Own("text").of = Top.no /\ Own("text").is = "text"
      /\ Own("stash").of = Top.no /\ Own("stash").is = "stash"
  BY OwnIsValue
<1>2. h \in Nat /\ Len(Last(stacks)) = h
  BY FrameTypes DEF Stack
<1>3. Made(ss, h) /\ Len(Last(ss)) = h + 1
  BY <1>1, <1>2, MadeByPush
<1> HIDE DEF ss
<1>4. CASE isError
  <2>1. uu = Push(ss, Own("text"))
    BY <1>4 DEF Checked, ss
  <2>2. /\ Made(uu, h) /\ Len(Last(uu)) = Len(Last(ss)) + 1
        /\ Last(uu)[Len(Last(ss)) + 1] = Own("text")
    <3> DEFINE v == Own("text")
    <3>1. v \in Value /\ uu = Push(ss, v) /\ Made(ss, h)
      BY <1>1, <1>3, <2>1
    <3> HIDE DEF v
    <3>2. /\ Made(uu, h) /\ Len(Last(uu)) = Len(Last(ss)) + 1
          /\ Last(uu)[Len(Last(ss)) + 1] = v
      BY <3>1, MadeByPush
    <3> QED
      BY <3>2 DEF v
  <2>3. Len(Last(ss)) + 1 = h + 2
    BY <1>2, <1>3
  <2> QED
    BY <1>1, <2>2, <2>3
<1>5. CASE ~isError
  <2> DEFINE tt == ToText(ss)
  <2>1. uu = Push(tt, Own("stash"))
    BY <1>5 DEF Checked, ss
  <2>2. Made(tt, h) /\ Len(Last(tt)) = h + 1
    <3>1. Last(ss) # << >> /\ h < Len(Last(ss)) /\ h \in Int /\ h <= h
      BY <1>2, <1>3, EmptySeq
    <3> QED
      BY <1>3, <3>1, MadeByText
  <2> HIDE DEF tt
  <2>3. /\ Made(uu, h) /\ Len(Last(uu)) = Len(Last(tt)) + 1
        /\ Last(uu)[Len(Last(tt)) + 1] = Own("stash")
    <3> DEFINE v == Own("stash")
    <3>1. v \in Value /\ uu = Push(tt, v) /\ Made(tt, h)
      BY <1>1, <2>1, <2>2
    <3> HIDE DEF v
    <3>2. /\ Made(uu, h) /\ Len(Last(uu)) = Len(Last(tt)) + 1
          /\ Last(uu)[Len(Last(tt)) + 1] = v
      BY <3>1, MadeByPush
    <3> QED
      BY <3>2 DEF v
  <2>4. Len(Last(tt)) + 1 = h + 2
    BY <1>2, <2>2
  <2> QED
    BY <1>1, <2>3, <2>4
<1> QED
  BY <1>4, <1>5

LEMMA KeptByLoopReturns ==
  ASSUME Inv, LoopReturns
  PROVE  Inv' /\ KeptBelow
<1>1. /\ Core /\ frames # << >> /\ Top.op \in {"eval", "dispatch"} /\ Top.at = "loop"
      /\ Made(stacks, Len(Stack)) /\ Last(stacks) = Stack /\ Len(Stack) \in Nat
      /\ Top.base \in Nat /\ Top.base + Height(Top) <= Len(Stack)
      /\ Top.no \notin spoilt => Held(Top, Stack, Len(Stack))
  BY AtTop DEF LoopReturns
<1>2. Top.base <= Len(Stack) /\ Top.ok \in BOOLEAN /\ Height(Top) \in 0 .. 1
      /\ Ends(Top.ok, Nothing, stacks) /\ (Top.ok => Height(Top) = 0)
  BY <1>1, InOpFacts DEF LoopReturns, Height
<1>3. Made(stacks, Top.base)
  BY <1>1, <1>2, MadeLess
<1>4. Top.ok /\ Top.no \notin spoilt => Len(Stack) = Top.base
  BY <1>1, <1>2 DEF Held
<1> QED
  BY <1>1, <1>2, <1>3, <1>4, KeptByEnd

LEMMA KeptByLoopFails ==
  ASSUME Inv, NEW isError \in BOOLEAN, LoopFails(isError)
  PROVE  Inv' /\ KeptBelow
<1> DEFINE h == Len(Stack)
           tt == Checked(Push(stacks, Own("error")), isError)
           uu == Pop(tt, 1)
<1>1. /\ Core /\ frames # << >> /\ Top.op = "eval" /\ Top.at = "loop"
      /\ Made(stacks, h) /\ Last(stacks) = Stack /\ h \in Nat
      /\ Top.base \in Nat /\ Top.base + Height(Top) <= h
      /\ Top.no \notin spoilt => Held(Top, Stack, h)
  BY AtTop DEF LoopFails
<1>2. Height(Top) \in 0 .. 1
  BY <1>1 DEF Height
<1>3. Made(tt, h) /\ Len(Last(tt)) = h + 2
  BY <1>1, CheckedFacts
<1>4. Ends(FALSE, Nothing, uu)
  BY DEF LoopFails
<1> HIDE DEF tt
<1>5. Made(uu, Top.base) /\ Len(Last(uu)) = h + 1
  <2>1. Top.base \in Int /\ Top.base <= h /\ Top.base <= Len(Last(tt)) - 1
    BY <1>1, <1>2, <1>3
  <2>2. Made(uu, Top.base) /\ Len(Last(uu)) = Len(Last(tt)) - 1
    BY <1>1, <1>3, <2>1, MadeByPop
  <2> QED
    BY <1>1, <1>3, <2>2
<1> HIDE DEF uu, h
<1> QED
  BY <1>1, <1>4, <1>5, KeptByEnd

LEMMA KeptByDispatchFails ==
  ASSUME Inv, DispatchFails
  PROVE  Inv' /\ KeptBelow
<1> DEFINE h == Len(Stack)
           tt == Push(stacks, Own("text"))
<1>1. /\ Core /\ frames # << >> /\ Top.op = "dispatch" /\ Top.at \in {"script", "loop"}
      /\ Made(stacks, h) /\ Last(stacks) = Stack /\ h \in Nat
      /\ Top.base \in Nat /\ Top.base + Height(Top) <= h
      /\ Top.no \notin spoilt => Held(Top, Stack, h)
  BY AtTop DEF DispatchFails
<1>2. Height(Top) = 0
  BY <1>1 DEF Height
<1>3. Made(tt, h) /\ Len(Last(tt)) = h + 1
  <2>1. Own("text") \in Value
    BY <1>1, OwnIsValue
  <2> QED
    BY <1>1, <2>1, MadeByPush
<1>4. Ends(FALSE, Nothing, tt)
  BY DEF DispatchFails
<1>5. Made(tt, Top.base)
  BY <1>1, <1>2, <1>3, MadeLess
<1> QED
  BY <1>1, <1>4, <1>5, KeptByEnd

-----------------------------------------------------------------------------
(* Names that are looked up.                                               *)

\* What a class is of stands below it.
Kept == IF Top.op = "class" THEN 1 ELSE 0

\* The object popped, a name has what it has kept, and no more.
NameAt(tt) ==
  /\ Core /\ frames # << >> /\ Top.op \in Finding /\ Top.base \in Nat
  /\ Made(tt, Top.base) /\ Kept \in {0, 1} /\ Top.base + Kept <= Len(Last(tt))
  /\ Top.no \notin spoilt =>
       /\ Len(Last(tt)) = Top.base + Kept
       /\ Kept = 1 => Last(tt)[Top.base + 1] = [of |-> Top.no, is |-> "value"]

LEMMA NameFacts ==
  ASSUME Inv, AtName \/ InOp(Finding, "script")
  PROVE  NameAt(WithoutObject)
<1> DEFINE h == Len(Stack)
           tt == WithoutObject
<1>1. /\ Core /\ frames # << >> /\ Top.op \in Finding
      /\ Top.at \in {"global", "property", "script"}
      /\ Made(stacks, h) /\ Last(stacks) = Stack /\ h \in Nat
      /\ Top.base \in Nat /\ Top.base + Height(Top) <= h
      /\ Top.no \notin spoilt => Held(Top, Stack, h)
  BY AtTop DEF AtName
<1>2. /\ Height(Top) = Kept + (IF Top.at = "property" THEN 1 ELSE 0) /\ Kept \in {0, 1}
      /\ Top.op # "sub" /\ (Kept = 1 => KeepsFirst(Top))
  BY <1>1 DEF Height, Kept, Finding, Finders, KeepsFirst
<1>3. Top.no \notin spoilt =>
        /\ h = Top.base + Height(Top)
        /\ Kept = 1 => Stack[Top.base + 1] = [of |-> Top.no, is |-> "value"]
  BY <1>1, <1>2 DEF Held
<1>4. CASE Top.at = "property"
  <2>1. tt = Pop(stacks, 1)
    BY <1>4 DEF WithoutObject
  <2>2. Height(Top) = Kept + 1
    BY <1>2, <1>4
  <2>3. Made(tt, Top.base) /\ Len(Last(tt)) = h - 1 /\ \A p \in 1 .. h - 1 : Last(tt)[p] = Stack[p]
    <3> DEFINE b == Top.base
    <3>1. b \in Int /\ b <= h /\ b <= Len(Last(stacks)) - 1 /\ 1 \in Nat /\ 1 <= Len(Last(stacks))
      BY <1>1, <1>2, <2>2
    <3> HIDE DEF b, tt
    <3>2. /\ Made(tt, b) /\ Len(Last(tt)) = Len(Last(stacks)) - 1
          /\ \A p \in 1 .. Len(Last(stacks)) - 1 : Last(tt)[p] = Last(stacks)[p]
      BY <1>1, <2>1, <3>1, MadeByPop
    <3> QED
      BY <1>1, <3>2 DEF b
  <2> HIDE DEF h, tt
  <2>4. Top.base + Kept <= Len(Last(tt))
    BY <1>1, <1>2, <2>2, <2>3
  <2>5. ASSUME Top.no \notin spoilt
        PROVE  /\ Len(Last(tt)) = Top.base + Kept
               /\ Kept = 1 => Last(tt)[Top.base + 1] = [of |-> Top.no, is |-> "value"]
    BY <1>1, <1>2, <1>3, <2>2, <2>3, <2>5
  <2> QED
    BY <1>1, <1>2, <2>3, <2>4, <2>5 DEF NameAt, tt
<1>5. CASE Top.at # "property"
  <2>1. tt = stacks /\ Height(Top) = Kept
    BY <1>2, <1>5 DEF WithoutObject
  <2>2. Made(tt, Top.base)
    BY <1>1, <1>2, <2>1, MadeLess
  <2> QED
    BY <1>1, <1>2, <1>3, <2>1, <2>2 DEF NameAt
<1> QED
  BY <1>4, <1>5

\* What is found stands above that.
LEMMA FoundFacts ==
  ASSUME Inv, AtName
  PROVE  LET tt == Found(Own("value"))
             own == [of |-> Top.no, is |-> "value"]
         IN /\ Core /\ frames # << >> /\ Top.op \in Finding /\ Top.base \in Nat
            /\ Made(tt, Top.base) /\ Kept \in {0, 1} /\ Top.base + Kept + 1 <= Len(Last(tt))
            /\ Top.no \notin spoilt =>
                 Len(Last(tt)) = Top.base + Kept + 1 /\ Last(tt)[Top.base + 1] = own
            /\ own \in Value
<1> DEFINE ss == WithoutObject
           v == Own("value")
           tt == Push(ss, v)
           h == Len(Last(ss))
<1>1. NameAt(ss)
  BY NameFacts
<1>2. Core /\ frames # << >> /\ Top.op \in Finding /\ Top.base \in Nat /\ Made(ss, Top.base)
  BY <1>1 DEF NameAt
<1>3. v = [of |-> Top.no, is |-> "value"] /\ v \in Value
  BY <1>2, OwnIsValue DEF Own
<1> HIDE DEF ss, v
<1>4. /\ Made(tt, Top.base) /\ Len(Last(tt)) = h + 1 /\ Last(tt)[h + 1] = v
      /\ \A p \in 1 .. h : Last(tt)[p] = Last(ss)[p]
  BY <1>2, <1>3, MadeByPush
<1>5. tt = Found(Own("value"))
  BY DEF Found, ss, v
<1>6. h \in Nat
  BY <1>2 DEF Made
<1> HIDE DEF tt, h
<1>7. Kept \in {0, 1} /\ Top.base + Kept + 1 <= Len(Last(tt))
  BY <1>1, <1>2, <1>4, <1>6 DEF NameAt, h
<1>8. ASSUME Top.no \notin spoilt
      PROVE  Len(Last(tt)) = Top.base + Kept + 1 /\ Last(tt)[Top.base + 1] = v
  <2>1. h = Top.base + Kept /\ (Kept = 1 => Last(ss)[Top.base + 1] = v)
    BY <1>1, <1>3, <1>8 DEF NameAt, h
  <2>2. CASE Kept = 1
    BY <1>2, <1>4, <1>6, <2>1, <2>2
  <2>3. CASE Kept = 0
    BY <1>2, <1>4, <1>6, <2>1, <2>3
  <2> QED
    BY <1>7, <2>2, <2>3
<1> QED
  BY <1>2, <1>3, <1>4, <1>5, <1>7, <1>8

LEMMA KeptByNotFound ==
  ASSUME Inv, NotFound
  PROVE  Inv' /\ KeptBelow
<1> DEFINE ss == WithoutObject
           tt == IF Top.op = "class" THEN Pop(ss, 1) ELSE ss
<1>1. NameAt(ss)
  BY NameFacts DEF NotFound
<1>2. /\ Core /\ frames # << >> /\ Top.op \in Finding /\ Top.base \in Nat /\ Made(ss, Top.base)
      /\ Top.op # "sub" /\ Top.base + Kept <= Len(Last(ss)) /\ Len(Last(ss)) \in Nat
      /\ Kept \in {0, 1}
  BY <1>1 DEF NameAt, Finding, Finders, Made
<1>3. Ends(TRUE, Nothing, tt)
  BY DEF NotFound
<1> HIDE DEF ss
<1>4. Made(tt, Top.base) /\ Len(Last(tt)) = Len(Last(ss)) - Kept
  <2>1. CASE Top.op = "class"
    <3>1. tt = Pop(ss, 1) /\ Kept = 1 /\ 1 <= Len(Last(ss)) /\ Top.base <= Len(Last(ss)) - 1
          /\ Top.base \in Int
      BY <1>2, <2>1 DEF Kept
    <3> HIDE DEF tt
    <3> QED
      BY <1>2, <3>1, MadeByPop
  <2>2. CASE Top.op # "class"
    BY <1>2, <2>2 DEF Kept
  <2> QED
    BY <2>1, <2>2
<1> HIDE DEF tt
<1>5. Top.no \notin spoilt => Len(Last(tt)) = Top.base
  BY <1>1, <1>2, <1>4 DEF NameAt
<1> QED
  BY <1>2, <1>3, <1>4, <1>5, KeptByEnd

LEMMA KeptByFoundOne ==
  ASSUME Inv, FoundOne
  PROVE  Inv' /\ KeptBelow
<1> DEFINE tt == Found(Own("value"))
           n == IF Top.op = "class" THEN 2 ELSE 1
           got == Last(tt)[Len(Last(tt)) + 1 - n]
           uu == Pop(tt, n)
<1>1. /\ Core /\ frames # << >> /\ Top.op \in Finding /\ Top.base \in Nat
      /\ Made(tt, Top.base) /\ Kept \in {0, 1} /\ Top.base + Kept + 1 <= Len(Last(tt))
      /\ Top.no \notin spoilt =>
           /\ Len(Last(tt)) = Top.base + Kept + 1
           /\ Last(tt)[Top.base + 1] = [of |-> Top.no, is |-> "value"]
  BY FoundFacts DEF FoundOne
<1>2. Top.op # "sub" /\ Top.op # "eval" /\ n = Kept + 1 /\ Ends(TRUE, got, uu)
  <2>1. Ends(TRUE, got, uu)
    BY DEF FoundOne
  <2>2. n = Kept + 1
    BY DEF Kept
  <2> HIDE DEF n, uu, got, tt
  <2>3. Top.op # "sub" /\ Top.op # "eval"
    BY <1>1 DEF Finding, Finders
  <2> QED
    BY <2>1, <2>2, <2>3
<1>3. Len(Last(tt)) \in Nat /\ Last(tt) \in Seq(Value)
  <2>1. tt \in Seq(Seq(Value)) /\ tt # << >> /\ Len(Last(tt)) \in Nat
    BY <1>1 DEF Made
  <2> QED
    BY <2>1, LastStack
<1> HIDE DEF tt, n
<1>4. Made(uu, Top.base) /\ Len(Last(uu)) = Len(Last(tt)) - n
  <2> DEFINE b == Top.base
  <2>1. n \in Nat /\ n <= Len(Last(tt)) /\ b <= Len(Last(tt)) - n /\ b \in Int /\ b <= b
    BY <1>1, <1>2, <1>3
  <2>2. Made(tt, b)
    BY <1>1
  <2> HIDE DEF b, uu
  <2>3. uu = Pop(tt, n)
    BY DEF uu
  <2>5. Core
    BY <1>1
  <2>4. Made(uu, b) /\ Len(Last(uu)) = Len(Last(tt)) - n
    BY ONLY <2>1, <2>2, <2>3, <2>5, MadeByPop
  <2> QED
    BY <2>4 DEF b
<1>5. got \in Value
  <2>1. Len(Last(tt)) + 1 - n \in 1 .. Len(Last(tt))
    BY <1>1, <1>2, <1>3
  <2> QED
    BY <1>3, <2>1, ElementOfSeq
<1>6. Top.no \notin spoilt => got = [of |-> Top.no, is |-> "value"]
  BY <1>1, <1>2
<1> HIDE DEF uu, got
<1>7. Top.no \notin spoilt => Len(Last(uu)) = Top.base
  BY <1>1, <1>2, <1>4
<1> QED
  BY <1>1, <1>2, <1>4, <1>5, <1>6, <1>7, KeptByEnd

LEMMA KeptByFoundObject ==
  ASSUME Inv, FoundObject
  PROVE  Inv' /\ KeptBelow
<1> DEFINE tt == Found(Own("value"))
           f(at) == [Top EXCEPT !.op = "class", !.at = at]
<1>1. /\ Core /\ frames # << >> /\ Top.op \in Finding /\ Top.base \in Nat
      /\ Made(tt, Top.base) /\ Kept \in {0, 1} /\ Top.base + Kept + 1 <= Len(Last(tt))
      /\ Top.no \notin spoilt =>
           /\ Len(Last(tt)) = Top.base + Kept + 1
           /\ Last(tt)[Top.base + 1] = [of |-> Top.no, is |-> "value"]
  BY FoundFacts DEF FoundObject
<1>2. stacks' = tt /\ UNCHANGED <<begun, last, spoilt, aborted>> /\ Top.op = "instanceof"
  BY DEF FoundObject, Moves
<1>3. PICK at \in {"global", "script"} : Goes(f(at))
  BY DEF FoundObject
<1>4. Top \in Frame /\ Top.deep = 0
  <2>1. Top.at # "fetch"
    BY AtTop DEF FoundObject, AtName
  <2> QED
    BY <1>1, <2>1, TopFacts DEF StageOf
<1>5. /\ f(at) \in Frame /\ f(at).no = Top.no /\ f(at).act = Top.act /\ f(at).base = Top.base
      /\ f(at).op = "class" /\ f(at).at = at /\ f(at).deep = 0
  BY <1>4 DEF Frame
<1> HIDE DEF tt, f
<1>6. StageOf(f(at)) /\ Height(f(at)) = 1 /\ Kept = 0
  BY <1>2, <1>5 DEF StageOf, Height, Kept
<1>7. Top.no \notin spoilt => Held(f(at), Last(tt), Len(Last(tt)))
  BY <1>1, <1>5, <1>6 DEF Held, KeepsFirst
<1>8. StepsOn(f(at))
  BY <1>1, <1>2, <1>3, <1>5, <1>6, <1>7 DEF StepsOn
<1> QED
  BY <1>2, <1>8, StepOn, MovesRightly

LEMMA KeptByFoundToConvert ==
  ASSUME Inv, FoundToConvert
  PROVE  Inv' /\ KeptBelow
<1> DEFINE tt == Found(Own("value"))
           f == [Top EXCEPT !.at = "convert"]
<1>1. /\ Core /\ frames # << >> /\ Top.op \in Finding /\ Top.base \in Nat
      /\ Made(tt, Top.base) /\ Kept \in {0, 1} /\ Top.base + Kept + 1 <= Len(Last(tt))
      /\ Top.no \notin spoilt =>
           /\ Len(Last(tt)) = Top.base + Kept + 1
           /\ Last(tt)[Top.base + 1] = [of |-> Top.no, is |-> "value"]
  BY FoundFacts DEF FoundToConvert
<1>2. /\ stacks' = tt /\ UNCHANGED <<begun, last, spoilt, aborted>> /\ Top.op = "get"
      /\ Goes(f) /\ Top.at # "fetch"
  <2>1. Top.at # "fetch"
    BY AtTop DEF FoundToConvert, AtName
  <2> QED
    BY <2>1 DEF FoundToConvert, Moves, GoesTo
<1>3. Turned(f, "get", "convert", Top.ok)
  BY <1>1, <1>2, TurnedTo DEF Ats
<1> HIDE DEF tt, f
<1>4. StageOf(f) /\ Height(f) = 1 /\ Kept = 0
  BY <1>2, <1>3 DEF Turned, StageOf, Height, Kept
<1>5. Top.no \notin spoilt => Held(f, Last(tt), Len(Last(tt)))
  BY <1>1, <1>3, <1>4 DEF Turned, Held, KeepsFirst
<1>6. StepsOn(f)
  BY <1>1, <1>2, <1>3, <1>4, <1>5 DEF StepsOn, Turned
<1> QED
  BY <1>2, <1>6, StepOn, MovesRightly

LEMMA KeptByPathFound ==
  ASSUME Inv, PathFound
  PROVE  Inv' /\ KeptBelow
<1> DEFINE f == [Top EXCEPT !.at = "property"]
           h == Len(Stack)
           tt == Push(stacks, Own("object"))
<1>1. /\ Core /\ frames # << >> /\ Top.op \in Finding \cup {"set", "remove"} /\ Top.at = "script"
      /\ Made(stacks, h) /\ Last(stacks) = Stack /\ h \in Nat
      /\ Top.base \in Nat /\ Top.base + Height(Top) <= h
      /\ Top.no \notin spoilt => Held(Top, Stack, h)
  BY AtTop DEF PathFound
<1>2. Turned(f, Top.op, "property", Top.ok)
  BY <1>1, TurnedTo DEF Ats
<1>3. Own("object") \in Value
  BY <1>1, OwnIsValue
<1>4. Made(tt, h) /\ Len(Last(tt)) = h + 1 /\ \A p \in 1 .. h : Last(tt)[p] = Stack[p]
  BY <1>1, <1>3, MadeByPush
<1>5. Goes(f) /\ stacks' = tt /\ UNCHANGED <<begun, last, spoilt, aborted>>
  BY DEF PathFound, GoesTo, Moves
<1> HIDE DEF f, tt, h
<1>6. /\ StageOf(f) /\ Height(f) = Height(Top) + 1 /\ Top.op # "sub" /\ Top.op # "eval"
      /\ Height(Top) \in Nat
  BY <1>1, <1>2 DEF Turned, StageOf, Height, Finding, Finders
<1>7. Made(tt, Top.base)
  BY <1>1, <1>4, <1>6, MadeLess
<1>8. ASSUME Top.no \notin spoilt
      PROVE  Held(f, Last(tt), h + 1)
  <2>1. h = Top.base + Height(Top)
    BY <1>1, <1>6, <1>8 DEF Held
  <2>2. KeepsFirst(f) => KeepsFirst(Top) /\ Height(Top) >= 1
    BY <1>1, <1>2 DEF Turned, KeepsFirst, Height
  <2>3. KeepsFirst(f) => Last(tt)[Top.base + 1] = [of |-> Top.no, is |-> "value"]
    <3>1. KeepsFirst(Top) => Stack[Top.base + 1] = [of |-> Top.no, is |-> "value"]
      BY <1>1, <1>8 DEF Held
    <3>2. Height(Top) >= 1 => Top.base + 1 \in 1 .. h
      BY <1>1, <1>6, <2>1
    <3> QED
      BY <1>4, <2>2, <3>1, <3>2
  <2> QED
    BY <1>1, <1>2, <1>6, <2>1, <2>3 DEF Turned, Held
<1>9. StepsOn(f)
  BY <1>1, <1>2, <1>4, <1>5, <1>6, <1>7, <1>8 DEF StepsOn, Turned
<1> QED
  BY <1>5, <1>9, StepOn, MovesRightly

LEMMA KeptByGetConverts ==
  ASSUME Inv, GetConverts
  PROVE  Inv' /\ KeptBelow
<1> DEFINE h == Len(Stack)
           tt == Pop(stacks, 1)
           b == Top.base
           got == Below(0)
<1>1. /\ Core /\ frames # << >> /\ Top.op = "get" /\ Top.at = "convert"
      /\ Made(stacks, h) /\ Last(stacks) = Stack /\ h \in Nat
      /\ b \in Nat /\ b + Height(Top) <= h
      /\ Top.no \notin spoilt => Held(Top, Stack, h)
  BY AtTop DEF GetConverts
<1>2. Height(Top) = 1 /\ KeepsFirst(Top) /\ Ends(TRUE, got, tt)
  <2>1. Ends(TRUE, got, tt)
    BY DEF GetConverts
  <2>2. Height(Top) = 1 /\ KeepsFirst(Top)
    BY <1>1 DEF Height, KeepsFirst
  <2> QED
    BY <2>1, <2>2
<1>3. got = Stack[h] /\ got \in Value
  <2>1. Stack \in Seq(Value)
    BY InOpFacts DEF GetConverts
  <2>2. h \in 1 .. h /\ h - 0 = h
    BY <1>1, <1>2
  <2> QED
    BY <2>1, <2>2, ElementOfSeq DEF Below
<1> HIDE DEF tt, got, b
<1>4. Made(tt, b) /\ Len(Last(tt)) = h - 1
  <2>1. b <= h - 1 /\ b \in Nat
    BY <1>1, <1>2
  <2>2. tt = Pop(stacks, 1)
    BY DEF tt
  <2> QED
    BY <1>1, <2>1, <2>2, MadeByFirstPop
<1>5. Top.no \notin spoilt => h = b + 1 /\ got = [of |-> Top.no, is |-> "value"]
  BY <1>1, <1>2, <1>3 DEF Held, b
<1>6. Top.no \notin spoilt => Len(Last(tt)) = b
  BY <1>1, <1>4, <1>5
<1> QED
  BY <1>1, <1>2, <1>3, <1>4, <1>5, <1>6, KeptByEnd DEF b

-----------------------------------------------------------------------------
(* eval and dispatch, in the middle.                                       *)

LEMMA KeptByStart ==
  ASSUME Inv, Compiles \/ Dispatched
  PROVE  Inv' /\ KeptBelow
<1> DEFINE to == IF Top.op = "eval" THEN "script" ELSE "loop"
           f == [Top EXCEPT !.at = to]
           h == Len(Stack)
<1>1. /\ Core /\ frames # << >>
      /\ (Top.op = "eval" /\ Top.at = "ready") \/ (Top.op = "dispatch" /\ Top.at = "script")
      /\ Made(stacks, h) /\ Last(stacks) = Stack /\ h \in Nat
      /\ Top.base \in Nat /\ Top.base + Height(Top) <= h
      /\ Top.no \notin spoilt => Held(Top, Stack, h)
      /\ StageOf(Top)
  BY AtTop DEF Compiles, Dispatched
<1>2. Turned(f, Top.op, to, Top.ok)
  BY <1>1, TurnedTo DEF Ats
<1>3. Goes(f) /\ stacks' = stacks /\ UNCHANGED <<begun, last, spoilt, aborted>>
  <2>1. CASE Compiles
    BY <2>1, AtTop DEF Compiles, GoesTo, Moves
  <2>2. CASE Dispatched
    BY <2>2, AtTop DEF Dispatched, GoesTo, Moves
  <2> QED
    BY <2>1, <2>2
<1>4. Height(Top) = 0
  BY <1>1 DEF Height
<1>5. Top.no \notin spoilt => h = Top.base
  BY <1>1, <1>4 DEF Held
<1>6. StageOf(f) /\ (Height(f) = 0 \/ (f.op = "dispatch" /\ Height(f) = 0))
      /\ Top.op # "sub" /\ ~KeepsFirst(f) /\ ~(f.op = "eval" /\ f.at = "convert")
  <2>1. f.op \in {"eval", "dispatch"} /\ f.op = Top.op /\ f.deep = 0
        /\ f.at = (IF f.op = "eval" THEN "script" ELSE "loop")
        /\ (f.op = "eval" => f.ok)
    <3>1. Top.op = "eval" => Top.ok
      BY <1>1 DEF StageOf
    <3> QED
      BY <1>1, <1>2, <3>1 DEF Turned
  <2> HIDE DEF f
  <2> QED
    BY <2>1 DEF StageOf, Height, KeepsFirst, Finders
<1> HIDE DEF f
<1>7. Top.no \notin spoilt => Held(f, Stack, h)
  BY <1>1, <1>2, <1>5, <1>6 DEF Turned, Held
<1>8. Made(stacks, Top.base)
  BY <1>1, <1>4, MadeLess
<1>9. StepsOn(f)
  BY <1>1, <1>2, <1>3, <1>4, <1>6, <1>7, <1>8 DEF StepsOn, Turned
<1> QED
  BY <1>3, <1>9, StepOn, MovesRightly

LEMMA KeptByScriptReturns ==
  ASSUME Inv, ScriptReturns
  PROVE  Inv' /\ KeptBelow
<1> DEFINE f == [Top EXCEPT !.at = "convert"]
           h == Len(Stack)
           tt == Push(stacks, Own("answer"))
<1>1. /\ Core /\ frames # << >> /\ Top.op = "eval" /\ Top.at = "script"
      /\ Made(stacks, h) /\ Last(stacks) = Stack /\ h \in Nat
      /\ Top.base \in Nat /\ Top.base + Height(Top) <= h
      /\ Top.no \notin spoilt => Held(Top, Stack, h)
  BY AtTop DEF ScriptReturns
<1>2. Turned(f, "eval", "convert", Top.ok)
  BY <1>1, TurnedTo DEF Ats
<1>3. Own("answer") \in Value /\ Own("answer").of = Top.no /\ Own("answer").is = "answer"
  BY <1>1, OwnIsValue
<1>4. Made(tt, h) /\ Len(Last(tt)) = h + 1 /\ Last(tt)[h + 1] = Own("answer")
  BY <1>1, <1>3, MadeByPush
<1>5. Goes(f) /\ stacks' = tt /\ UNCHANGED <<begun, last, spoilt, aborted>>
  BY DEF ScriptReturns, GoesTo, Moves
<1>6. Height(Top) = 0
  BY <1>1 DEF Height
<1>7. Top.ok
  BY <1>1, AtTop DEF StageOf, ScriptReturns
<1>8. StageOf(f) /\ Height(f) = 1
  BY <1>2, <1>7 DEF Turned, StageOf, Height
<1> HIDE DEF f, tt
<1>9. Made(tt, Top.base)
  BY <1>1, <1>4, <1>6, MadeLess
<1>10. Top.no \notin spoilt => Held(f, Last(tt), Len(Last(tt)))
  <2>1. Top.no \notin spoilt => h = Top.base
    BY <1>1, <1>6 DEF Held
  <2> QED
    BY <1>1, <1>2, <1>3, <1>4, <1>7, <1>8, <2>1 DEF Turned, Held, KeepsFirst
<1>11. StepsOn(f)
  BY <1>1, <1>2, <1>4, <1>5, <1>6, <1>8, <1>9, <1>10 DEF StepsOn, Turned
<1> QED
  BY <1>5, <1>11, StepOn, MovesRightly

LEMMA KeptByScriptThrows ==
  ASSUME Inv, NEW isError \in BOOLEAN, ScriptThrows(isError)
  PROVE  Inv' /\ KeptBelow
<1> DEFINE f == [Top EXCEPT !.at = "convert", !.ok = FALSE]
           h == Len(Stack)
           tt == Checked(Push(stacks, Own("error")), isError)
<1>1. /\ Core /\ frames # << >> /\ Top.op = "eval" /\ Top.at = "script"
      /\ Made(stacks, h) /\ Last(stacks) = Stack /\ h \in Nat
      /\ Top.base \in Nat /\ Top.base + Height(Top) <= h
      /\ Top.no \notin spoilt => Held(Top, Stack, h)
  BY AtTop DEF ScriptThrows
<1>2. Turned(f, "eval", "convert", FALSE)
  <2>1. Top \in Frame
    BY <1>1, TopFacts
  <2>2. Top.deep = 0
    BY <1>1, TopFacts DEF StageOf
  <2> QED
    BY <1>1, <2>1, <2>2 DEF Turned, Frame
<1>3. /\ Made(tt, h) /\ Len(Last(tt)) = h + 2
      /\ Last(tt)[h + 2].of = Top.no /\ Last(tt)[h + 2].is \in {"text", "stash"}
  BY <1>1, CheckedFacts
<1>4. Goes(f) /\ stacks' = tt /\ UNCHANGED <<begun, last, spoilt, aborted>>
  BY DEF ScriptThrows, Moves
<1>5. Height(Top) = 0
  BY <1>1 DEF Height
<1>6. StageOf(f) /\ Height(f) = 2
  BY <1>2 DEF Turned, StageOf, Height
<1> HIDE DEF f, tt
<1>7. Made(tt, Top.base)
  BY <1>1, <1>3, <1>5, MadeLess
<1>8. Top.no \notin spoilt => Held(f, Last(tt), Len(Last(tt)))
  <2>1. Top.no \notin spoilt => h = Top.base
    BY <1>1, <1>5 DEF Held
  <2>2. h + 2 = Len(Last(tt))
    BY <1>1, <1>3
  <2> QED
    BY <1>1, <1>2, <1>3, <1>6, <2>1, <2>2 DEF Turned, Held, KeepsFirst
<1>9. StepsOn(f)
  BY <1>1, <1>2, <1>3, <1>4, <1>5, <1>6, <1>7, <1>8 DEF StepsOn, Turned
<1> QED
  BY <1>4, <1>9, StepOn, MovesRightly

LEMMA KeptByConverts ==
  ASSUME Inv, Converts
  PROVE  Inv' /\ KeptBelow
<1> DEFINE f == [Top EXCEPT !.at = "loop"]
           h == Len(Stack)
           b == Top.base
           tt == Pop(stacks, 1)
<1>1. /\ Core /\ frames # << >> /\ Top.op = "eval" /\ Top.at = "convert"
      /\ Made(stacks, h) /\ Last(stacks) = Stack /\ h \in Nat
      /\ b \in Nat /\ b + Height(Top) <= h
      /\ Top.no \notin spoilt => Held(Top, Stack, h)
  BY AtTop DEF Converts
<1>2. Turned(f, "eval", "loop", Top.ok) /\ Top.ok \in BOOLEAN
  BY <1>1, TurnedTo, AtTop DEF Ats, Converts
<1>3. Height(Top) = IF Top.ok THEN 1 ELSE 2
  BY <1>1 DEF Height
<1>4. StageOf(f) /\ Height(f) = Height(Top) - 1
  BY <1>2, <1>3 DEF Turned, StageOf, Height
<1>5. /\ Goes(f) /\ stacks' = tt /\ UNCHANGED <<begun, spoilt, aborted>>
      /\ last' = [no |-> Top.no, op |-> "eval", ok |-> Top.ok, got |-> Last(Stack), left |-> 0]
  BY DEF Converts, GoesTo
<1> HIDE DEF f, tt, b
<1>6. Made(tt, b) /\ Len(Last(tt)) = h - 1
  <2>1. b <= h - 1 /\ b \in Nat /\ tt = Pop(stacks, 1)
    BY <1>1, <1>3 DEF tt
  <2> QED
    BY <1>1, <2>1, MadeByFirstPop
<1>7. Top.no \notin spoilt => Held(f, Last(tt), Len(Last(tt)))
  <2>1. Top.no \notin spoilt => h = b + Height(Top)
    BY <1>1 DEF Held, b
  <2> QED
    BY <1>1, <1>2, <1>3, <1>4, <1>6, <2>1 DEF Turned, Held, KeepsFirst, b
<1>8. StepsOn(f)
  <2>1. b + Height(f) <= Len(Last(tt))
    BY <1>1, <1>3, <1>4, <1>6
  <2> QED
    BY <1>1, <1>2, <1>4, <1>5, <1>6, <1>7, <2>1 DEF StepsOn, Turned, b
<1>9. Core' /\ KeptBelow
  BY <1>1, <1>8, StepOn, GoesOn
<1>10. Last(Stack) \in Value /\ Last(Stack) = Stack[h]
  <2>1. Stack \in Seq(Value)
    BY InOpFacts DEF Converts
  <2>2. h \in 1 .. h
    BY <1>1, <1>3
  <2> QED
    BY <2>1, <2>2, ElementOfSeq DEF Last
<1>11. Ending'
  <2>1. Value' = Value /\ Nothing' = Nothing
    BY <1>5 DEF Value, Nothing
  <2>2. Top.no \notin spoilt =>
          /\ Last(Stack).of = Top.no
          /\ Top.ok => Last(Stack).is = "answer"
    BY <1>1, <1>10 DEF Held
  <2> HIDE DEF Top, Stack
  <2>3. OwnAnswer' /\ Balanced'
    BY <1>5, <2>2 DEF OwnAnswer, Balanced
  <2> QED
    BY <1>5, <1>10, <2>1, <2>3 DEF Ending
<1> QED
  BY <1>9, <1>11 DEF Inv

-----------------------------------------------------------------------------
(* set and remove.                                                         *)

LEMMA KeptBySetConverts ==
  ASSUME Inv, SetConverts
  PROVE  Inv' /\ KeptBelow
<1> DEFINE f(at) == [Top EXCEPT !.at = at, !.deep = 0]
           ss == Fetched
           h == Len(Last(ss))
           tt == Push(ss, Own("key"))
           own == [of |-> Top.no, is |-> "value"]
<1>1. /\ Core /\ frames # << >> /\ Top \in Frame /\ Top.op = "set" /\ Top.at = "fetch"
      /\ Top.base \in Nat /\ Made(ss, Top.base) /\ Top.base + 1 <= h
      /\ Top.no \notin spoilt => h = Top.base + 1 /\ Last(ss)[Top.base + 1] = own
  <2>1. Top.op = "set"
    BY AtTop DEF SetConverts
  <2> QED
    BY <2>1, FetchedFacts DEF SetConverts
<1>2. UNCHANGED <<begun, last, spoilt, aborted>>
  BY DEF SetConverts, Moves
<1>3. h \in Nat
  BY <1>1 DEF Made
<1>5. Own("key") \in Value
  BY <1>1, OwnIsValue
<1>7. ASSUME NEW at \in {"global", "script"}
      PROVE  Turned(f(at), "set", at, Top.ok)
  <2>1. 0 \in 0 .. MaxLevels
    BY EntriesAssumption
  <2> HIDE DEF ss, tt, h, own
  <2> QED
    BY <1>1, <2>1 DEF Turned, Frame
<1>8. \/ Goes(f("global")) /\ stacks' = ss
      \/ Goes(f("script")) /\ stacks' = tt
  BY DEF SetConverts, Moves
<1> HIDE DEF f, ss, own
<1>6. /\ Made(tt, Top.base) /\ Len(Last(tt)) = h + 1
      /\ \A p \in 1 .. h : Last(tt)[p] = Last(ss)[p]
  BY <1>1, <1>5, MadeByPush
<1> HIDE DEF tt
<1>9. CASE Goes(f("global")) /\ stacks' = ss
  <2> DEFINE g == f("global")
  <2>1. Turned(g, "set", "global", Top.ok)
    BY <1>7
  <2>2. Goes(g) /\ stacks' = ss
    BY <1>9
  <2> HIDE DEF g
  <2>3. StageOf(g) /\ Height(g) = 1
    BY <2>1 DEF Turned, StageOf, Height, Finders
  <2>5. Top.no \notin spoilt => Held(g, Last(ss), h)
    BY <1>1, <2>1, <2>3 DEF Turned, Held, own
  <2>6. StepsOn(g)
    BY <1>1, <1>2, <2>1, <2>2, <2>3, <2>5 DEF StepsOn, Turned
  <2> QED
    BY <1>2, <2>6, StepOn, MovesRightly
<1>10. CASE Goes(f("script")) /\ stacks' = tt
  <2> DEFINE g == f("script")
  <2>1. Turned(g, "set", "script", Top.ok)
    BY <1>7
  <2>2. Goes(g) /\ stacks' = tt
    BY <1>10
  <2> HIDE DEF g, h
  <2>3. StageOf(g) /\ Height(g) = 2
    BY <2>1 DEF Turned, StageOf, Height, Finders
  <2>5. Top.no \notin spoilt => Held(g, Last(tt), Len(Last(tt)))
    <3>1. ASSUME Top.no \notin spoilt
          PROVE  Len(Last(tt)) = Top.base + 2 /\ Last(tt)[Top.base + 1] = own
      BY <1>1, <1>3, <1>6, <3>1
    <3> QED
      BY <2>1, <2>3, <3>1 DEF Turned, Held, own
  <2>6. StepsOn(g)
    BY <1>1, <1>2, <1>3, <1>6, <2>1, <2>2, <2>3, <2>5 DEF StepsOn, Turned
  <2> QED
    BY <1>2, <2>6, StepOn, MovesRightly
<1> QED
  BY <1>8, <1>9, <1>10

\* set stores the value that it has kept, and pops all that is its own.
LEMMA KeptByStoring ==
  ASSUME Inv, SetsGlobal \/ SetsProperty
  PROVE  Inv' /\ KeptBelow
<1> DEFINE h == Len(Stack)
           b == Top.base
           n == IF Top.at = "property" THEN 3 ELSE 1
           tt == Pop(stacks, n)
           got == Below(n - 1)
<1>1. /\ Core /\ frames # << >> /\ Top.op = "set" /\ Top.at \in {"global", "property"}
      /\ Made(stacks, h) /\ Last(stacks) = Stack /\ h \in Nat /\ Stack \in Seq(Value)
      /\ b \in Nat /\ b + Height(Top) <= h
      /\ Top.no \notin spoilt => Held(Top, Stack, h)
  <2>1. CASE SetsGlobal
    BY <2>1, AtTop, InOpFacts DEF SetsGlobal
  <2>2. CASE SetsProperty
    BY <2>2, AtTop, InOpFacts DEF SetsProperty
  <2> QED
    BY <2>1, <2>2
<1>2. Ends(TRUE, got, tt)
  <2>1. CASE SetsGlobal
    <3>1. Top.at = "global"
      BY <2>1, AtTop DEF SetsGlobal
    <3>2. n = 1 /\ n - 1 = 0
      BY <3>1
    <3> HIDE DEF n
    <3> QED
      BY <2>1, <3>2 DEF SetsGlobal
  <2>2. CASE SetsProperty
    <3>1. Top.at = "property"
      BY <2>2, AtTop DEF SetsProperty
    <3>2. n = 3 /\ n - 1 = 2
      BY <3>1
    <3> HIDE DEF n
    <3> QED
      BY <2>2, <3>2 DEF SetsProperty, Stored
  <2> QED
    BY <2>1, <2>2
<1>3. Height(Top) = n /\ n \in 1 .. 3 /\ KeepsFirst(Top)
  BY <1>1 DEF Height, KeepsFirst
<1> HIDE DEF n, b, h
<1>4. got = Stack[h - (n - 1)] /\ got \in Value
  <2>1. h - (n - 1) \in 1 .. h /\ got = Stack[h - (n - 1)]
    BY <1>1, <1>3 DEF Below, h
  <2> QED
    BY <1>1, <2>1, ElementOfSeq DEF h
<1> HIDE DEF tt, got
<1>5. Made(tt, b) /\ Len(Last(tt)) = h - n
  <2>1. b <= Len(Stack) - n /\ b \in Nat /\ tt = Pop(stacks, n) /\ n \in Nat
    BY <1>1, <1>3 DEF tt, h
  <2> QED
    BY <1>1, <2>1, MadeByFirstPop DEF h
<1>6. ASSUME Top.no \notin spoilt
      PROVE  h - n = b /\ got = [of |-> Top.no, is |-> "value"]
  <2>1. h = b + n /\ Stack[b + 1] = [of |-> Top.no, is |-> "value"]
    BY <1>1, <1>3, <1>6 DEF Held, b
  <2>2. h - (n - 1) = b + 1 /\ h - n = b
    BY <1>1, <1>3, <2>1
  <2> QED
    BY <1>4, <2>1, <2>2
<1>7. Top.no \notin spoilt => Len(Last(tt)) = b
  BY <1>1, <1>5, <1>6
<1> QED
  BY <1>1, <1>2, <1>4, <1>5, <1>6, <1>7, KeptByEnd DEF b

LEMMA KeptBySetCroaks ==
  ASSUME Inv, SetCroaks
  PROVE  Inv' /\ KeptBelow
<1> DEFINE h == Len(Stack)
<1>1. /\ Core /\ frames # << >> /\ Top.op = "set" /\ Top.at = "fetch"
      /\ Made(stacks, h) /\ Last(stacks) = Stack /\ h \in Nat
      /\ Top.base \in Nat /\ Top.base + Height(Top) <= h
      /\ Top.no \notin spoilt => Held(Top, Stack, h)
  BY AtTop DEF SetCroaks
<1>2. Height(Top) \in Nat /\ Ends(FALSE, Nothing, stacks)
  BY <1>1, TopFacts DEF SetCroaks
<1>3. Made(stacks, Top.base)
  BY <1>1, <1>2, MadeLess
<1> QED
  BY <1>1, <1>2, <1>3, KeptByEnd

\* A key goes, and the value that it shows stays.
LEMMA KeptBySetFails ==
  ASSUME Inv, SetFails
  PROVE  Inv' /\ KeptBelow
<1> DEFINE h == Len(Stack)
           b == Top.base
           tt == Pop(stacks, 1)
           uu == ToText(tt)
<1>1. /\ Core /\ frames # << >> /\ Top.op = "set" /\ Top.at = "script"
      /\ Made(stacks, h) /\ Last(stacks) = Stack /\ h \in Nat
      /\ b \in Nat /\ b + Height(Top) <= h
      /\ Top.no \notin spoilt => Held(Top, Stack, h)
  BY AtTop DEF SetFails
<1>2. Height(Top) = 2
  BY <1>1 DEF Height
<1>3. Ends(FALSE, Nothing, uu)
  BY DEF SetFails
<1> HIDE DEF tt, b
<1>4. Made(tt, b) /\ Len(Last(tt)) = h - 1
  <2>1. b <= h - 1 /\ b \in Nat /\ tt = Pop(stacks, 1)
    BY <1>1, <1>2 DEF tt
  <2> QED
    BY <1>1, <2>1, MadeByFirstPop
<1> HIDE DEF uu, h
<1>5. Made(uu, b) /\ Len(Last(uu)) = h - 1
  <2>1. Last(tt) # << >> /\ b < Len(Last(tt)) /\ b \in Int /\ b <= b /\ uu = ToText(tt)
    BY <1>1, <1>2, <1>4, EmptySeq DEF uu
  <2>2. Made(uu, b) /\ Len(Last(uu)) = Len(Last(tt))
    BY <1>1, <1>4, <2>1, MadeByText
  <2> QED
    BY <1>4, <2>2
<1> QED
  BY <1>1, <1>3, <1>5, KeptByEnd DEF b

LEMMA KeptByRemoving ==
  ASSUME Inv, RemovesGlobal \/ RemovesProperty
  PROVE  Inv' /\ KeptBelow
<1> DEFINE h == Len(Stack)
           b == Top.base
           tt == IF Top.at = "property" THEN Pop(stacks, 1) ELSE stacks
<1>1. /\ Core /\ frames # << >> /\ Top.op = "remove" /\ Top.at \in {"ready", "property"}
      /\ Made(stacks, h) /\ Last(stacks) = Stack /\ h \in Nat
      /\ b \in Nat /\ b + Height(Top) <= h
      /\ Top.no \notin spoilt => Held(Top, Stack, h)
  <2>1. CASE RemovesGlobal
    BY <2>1, AtTop DEF RemovesGlobal
  <2>2. CASE RemovesProperty
    BY <2>2, AtTop DEF RemovesProperty
  <2> QED
    BY <2>1, <2>2
<1>2. Ends(TRUE, Nothing, tt)
  <2>1. CASE RemovesGlobal
    <3>1. Top.at = "ready" /\ Ends(TRUE, Nothing, stacks)
      BY <2>1, AtTop DEF RemovesGlobal
    <3> QED
      BY <3>1
  <2>2. CASE RemovesProperty
    <3>1. Top.at = "property" /\ Ends(TRUE, Nothing, Pop(stacks, 1))
      BY <2>2, AtTop DEF RemovesProperty
    <3> QED
      BY <3>1
  <2> QED
    BY <2>1, <2>2
<1>3. Height(Top) = IF Top.at = "property" THEN 1 ELSE 0
  BY <1>1 DEF Height
<1> HIDE DEF b, tt
<1>4. Made(tt, b) /\ Len(Last(tt)) = h - Height(Top)
  <2>1. CASE Top.at = "property"
    <3>1. b <= h - 1 /\ b \in Nat /\ tt = Pop(stacks, 1)
      BY <1>1, <1>3, <2>1 DEF tt
    <3> QED
      BY <1>1, <1>3, <2>1, <3>1, MadeByFirstPop
  <2>2. CASE Top.at = "ready"
    BY <1>1, <1>3, <2>2, MadeLess DEF tt
  <2> QED
    BY <1>1, <2>1, <2>2
<1> HIDE DEF h
<1>5. Top.no \notin spoilt => Len(Last(tt)) = b
  <2>1. Top.no \notin spoilt => h = b + Height(Top)
    BY <1>1 DEF Held, b
  <2> QED
    BY <1>1, <1>3, <1>4, <2>1
<1> QED
  BY <1>1, <1>2, <1>4, <1>5, KeptByEnd DEF b

\* The value of another, right below the base, becomes text: the one thing that an entry
\* does to what is not its own.
LEMMA KeptByRemoveFails ==
  ASSUME Inv, RemoveFails
  PROVE  Inv'
<1> DEFINE h == Len(Stack)
           b == Top.base - 1
           tt == ToText(stacks)
<1>1. /\ Core /\ frames # << >> /\ Top.op = "remove" /\ Top.at = "script"
      /\ Made(stacks, h) /\ Last(stacks) = Stack /\ h \in Nat
      /\ Top.base \in Nat /\ Top.base + Height(Top) <= h
      /\ Top.no \notin spoilt => Held(Top, Stack, h)
  BY AtTop DEF RemoveFails
<1>2. Height(Top) = 0 /\ Stack # << >> /\ Ends(FALSE, Nothing, tt)
  <2>1. Stack # << >> /\ Ends(FALSE, Nothing, tt)
    BY DEF RemoveFails
  <2>2. Height(Top) = 0
    BY <1>1 DEF Height
  <2> QED
    BY <2>1, <2>2
<1> HIDE DEF tt, b
<1>3. Made(tt, b) /\ Len(Last(tt)) = h
  <2>1. Last(stacks) # << >> /\ b < Len(Last(stacks)) /\ b \in Int /\ b <= h /\ tt = ToText(stacks)
    BY <1>1, <1>2 DEF tt, b
  <2>2. Made(tt, b) /\ Len(Last(tt)) = Len(Last(stacks))
    BY <1>1, <2>1, MadeByText
  <2> QED
    BY <1>1, <2>2
<1>5. EndsRightly(FALSE, Nothing, tt, b)
  BY <1>1, <1>2, <1>3 DEF EndsRightly, Made, b
<1> QED
  BY <1>2, <1>5, EndStep

-----------------------------------------------------------------------------
(* The theorems.                                                           *)

LEMMA InitInv ==
  ASSUME Init
  PROVE  Inv
<1>1. stacks = << << >> >> /\ frames = << >> /\ begun = 0 /\ spoilt = {} /\ aborted = FALSE
      /\ last = [no |-> 0, op |-> "none", ok |-> TRUE, got |-> Nothing, left |-> 0]
  BY DEF Init
<1>2. stacks \in Seq(Seq(Value)) /\ stacks # << >>
  BY <1>1, EmptySeq
<1>3. Core
  <2>1. Len(frames) = 0 /\ DOMAIN frames = {} /\ frames \in Seq(Frame)
    BY <1>1, EmptySeq
  <2>2. StackTypes
    <3>1. aborted \in BOOLEAN
      BY <1>1
    <3>2. begun \in 0 .. MaxCalls /\ spoilt \subseteq 1 .. begun
      BY <1>1, EntriesAssumption
    <3> QED
      BY <1>1, <1>2, <2>1, <3>1, <3>2 DEF StackTypes
  <2>3. Nested
    BY <2>1 DEF Nested
  <2>4. \A i \in 1 .. Len(frames) - 1 : Linked(i)
    BY <2>1
  <2> QED
    BY <1>1, <2>1, <2>2, <2>3, <2>4 DEF Core
<1>4. Ending
  BY <1>1 DEF Ending, OwnAnswer, Balanced
<1> QED
  BY <1>3, <1>4 DEF Inv

LEMMA NextInv ==
  ASSUME Inv, Next
  PROVE  Inv' /\ (RemoveFails \/ KeptBelow)
<1>0. CASE Deeper \/ Shallower \/ ConvertCroaks
  BY <1>0, KeptByDeeper, KeptByShallower, KeptByConvertCroaks
<1>1. CASE CallSub \/ SubStarts \/ SubReturns \/ SubAnswers \/ SubThrows \/ SubDies
  BY <1>1, KeptByCallSub, KeptBySubGoes, KeptBySubEnds, KeptByAllOver
<1>2. CASE Eval \/ CompileFails \/ Compiles \/ ScriptReturns
  BY <1>2, KeptByEntries, KeptByCompileFails, KeptByStart, KeptByScriptReturns
<1>3. CASE \E isError \in BOOLEAN : ScriptThrows(isError) \/ LoopFails(isError)
  BY <1>3, KeptByScriptThrows, KeptByLoopFails
<1>4. CASE Converts \/ LoopReturns \/ Dispatch \/ Dispatched \/ DispatchFails
  BY <1>4, KeptByConverts, KeptByLoopReturns, KeptByEntries, KeptByStart, KeptByDispatchFails
<1>5. CASE (\E op \in Finders : Find(op)) \/ PathFound \/ NotFound \/ FoundObject \/ FoundOne
           \/ FoundToConvert
  BY <1>5, KeptByEntries, KeptByPathFound, KeptByNotFound, KeptByFoundObject,
     KeptByFoundOne, KeptByFoundToConvert
<1>6. CASE GetConverts \/ NameAborts \/ SetName \/ SetCroaks \/ SetConverts \/ SetsGlobal
           \/ SetsProperty \/ SetFails
  BY <1>6, KeptByGetConverts, KeptByAllOver, KeptByEntries, KeptBySetCroaks,
     KeptBySetConverts, KeptByStoring, KeptBySetFails
<1>7. CASE RemoveName \/ RemovesGlobal \/ RemovesProperty \/ RemoveFails \/ RemoveAborts
  BY <1>7, KeptByEntries, KeptByRemoving, KeptByRemoveFails, KeptByAllOver
<1> QED
  BY <1>0, <1>1, <1>2, <1>3, <1>4, <1>5, <1>6, <1>7 DEF Next

LEMMA SameInv ==
  ASSUME Inv, UNCHANGED vars
  PROVE  Inv'
<1>1. /\ stacks' = stacks /\ frames' = frames /\ begun' = begun /\ last' = last
      /\ spoilt' = spoilt /\ aborted' = aborted
  BY DEF vars
<1>2. Core'
  <2>1. StackTypes'
    BY <1>1 DEF Inv, Core, StackTypes, Top, Frame, Value
  <2>2. Nested'
    BY <1>1 DEF Inv, Core, Nested
  <2>3. ASSUME NEW i PROVE Upto(i)' = Upto(i)
    BY <1>1 DEF Upto
  <2>6. ASSUME NEW i PROVE Clean(i)' = Clean(i)
    BY <1>1 DEF Clean
  <2>4. ASSUME NEW i, Holding(i) PROVE Holding(i)'
    BY <1>1, <2>3, <2>4, <2>6 DEF Holding
  <2>5. ASSUME NEW i, Linked(i) PROVE Linked(i)'
    BY <1>1, <2>5 DEF Linked
  <2> QED
    BY <1>1, <2>1, <2>2, <2>4, <2>5 DEF Inv, Core
<1>3. Ending'
  BY <1>1, EndingStays
<1> QED
  BY <1>2, <1>3 DEF Inv

\* The invariant holds of every reachable state, for every number of calls.
THEOREM InvHolds == Spec => []Inv
<1>1. Init => Inv
  BY InitInv
<1>2. Inv /\ [Next]_vars => Inv'
  BY NextInv, SameInv
<1> QED
  BY <1>1, <1>2, PTL DEF Spec

\* The types of the variables: the stacks hold values of calls that have begun, and the
\* innermost call works on the innermost stack (pl_duk.c:400-460).
THEOREM EntriesTypeCorrect == Spec => []TypeOK
<1>1. Inv => TypeOK
  BY DEF Inv, Core, StackTypes, Ending, TypeOK
<1> QED
  BY <1>1, InvHolds, PTL

\* What an entry or a sub answers with, or stores, is its own, and, if it succeeds, its
\* value: whatever number of calls nest and however they end, none takes what another has
\* left on the stack (pl_duk.c:677, 593-608, 448-457).  Spoilt calls are excepted.
THEOREM AnswersAreOwn == Spec => []OwnAnswer
<1>1. Inv => OwnAnswer
  BY DEF Inv, Ending
<1> QED
  BY <1>1, InvHolds, PTL

\* No call takes from the stack what was there before it, however it ends, and one that
\* succeeds leaves nothing there (pl_duk.c:593-608, 677-694).  A spoilt call is excepted
\* from the second.
THEOREM CallsBalance == Spec => []Balanced
<1>1. Inv => Balanced
  BY DEF Inv, Ending
<1> QED
  BY <1>1, InvHolds, PTL

\* No step, but that of a remove whose path fails, changes what lies below the base of a
\* call that is going on (pl_duk.c:480-500, 587-608, 629-631).
THEOREM FoundIsKept == Spec => BelowKept
<1> DEFINE Same ==
      \A i \in DOMAIN frames \cap DOMAIN frames' :
        LET f == frames[i]
        IN frames'[i].no = f.no =>
             SubSeq(stacks'[f.act], 1, f.base) = SubSeq(stacks[f.act], 1, f.base)
<1>1. Inv /\ Next => (RemoveFails \/ KeptBelow)
  BY NextInv
<1>2. KeptBelow => Same
  BY DEF KeptBelow
<1>3. Inv /\ [Next]_vars => [~RemoveFails => Same]_vars
  BY <1>1, <1>2
<1> QED
  BY <1>3, InvHolds, PTL DEF Spec, BelowKept
=============================================================================
