------------------------- MODULE RequestReplyProofs -------------------------
(***************************************************************************)
(* A file system that keeps to the API gets what AnswerService promises,   *)
(* whatever its handlers are and however many requests are under way:      *)
(* nothing between a handler and libfuse mixes up or repeats answers.      *)
(*                                                                         *)
(* The argument: a request has one activation at a time, in its turn or    *)
(* waiting, and as long as that has a reply ahead the request has none.    *)
(***************************************************************************)
EXTENDS RequestReply, SequenceTheorems, TLAPS

Activations == [n : Nat, path : Seq(Steps), layout : BOOLEAN]

\* The turn is an activation's; it is held by its turn or waits.
Runs(w) == turn = <<w>>
Held(w) == w \in waiting \/ Runs(w)

Shapes ==
    /\ requests \in Seq(Operations)
    /\ answers \in Seq(Seq([kind : Service!AnswerKinds, errno : Int]))
    /\ Len(answers) = Len(requests)
    /\ next \in 1..(Len(requests) + 1)
    /\ status \in {"up", "exited", "crashed"}
    /\ turn = <<>> \/ \E t \in Activations : turn = <<t>>
    /\ waiting \in SUBSET Activations

\* A request that has been dispatched has one activation at most.
OneActivation ==
    /\ \A w : Held(w) => w.n \in 1..(next - 1)
    /\ \A v, w : Held(v) /\ Held(w) /\ v.n = w.n => v = w
    /\ \A w \in waiting : ~ Runs(w)

\* Of the replies ahead there is one at most, and then none has been made.
OneAhead ==
    /\ \A w : Held(w) => RepliesOnce(w.path)
    /\ \A w : Held(w) /\ Replying(w.path) # {} => answers[w.n] = <<>>
    /\ \A n \in 1..Len(answers) : n >= next => answers[n] = <<>>

ReplyInv == Shapes /\ OneActivation /\ OneAhead /\ AnsweredOnce

-----------------------------------------------------------------------------
(* What the methods of Reply send.                                         *)

\* A method sends one answer or none, and addDirEntry sends none.
LEMMA OutcomeAnswers ==
    ASSUME NEW method, NEW layout, NEW args
    PROVE  LET answer == Outcome(method, layout, args).answer IN
           /\ \/ answer = <<>>
              \/ \E k \in Service!AnswerKinds, e \in Int :
                    answer = <<[kind |-> k, errno |-> e]>>
           /\ method = "addDirEntry" => answer = <<>>
<1> DEFINE Sent(out) ==
              \/ out.answer = <<>>
              \/ \E k \in Service!AnswerKinds, e \in Int :
                    out.answer = <<[kind |-> k, errno |-> e]>>
<1>1. /\ Sent(Crashes) /\ \A throws : Sent(Nothing(throws))
      /\ \A throws : \A k \in Service!AnswerKinds : Sent(Sends(Data(k), throws))
  BY DEF Crashes, Nothing, Sends, Data
<1>2. /\ "entry" \in Service!AnswerKinds /\ "attr" \in Service!AnswerKinds
      /\ "readlink" \in Service!AnswerKinds /\ "open" \in Service!AnswerKinds
      /\ "buf" \in Service!AnswerKinds /\ "write" \in Service!AnswerKinds
      /\ "statfs" \in Service!AnswerKinds /\ "create" \in Service!AnswerKinds
      /\ "xattr" \in Service!AnswerKinds /\ "none" \in Service!AnswerKinds
      /\ "err" \in Service!AnswerKinds
  BY DEF Service!AnswerKinds
<1>3. Sent(Error(args))
  <2>1. PICK n \in Int : FuseReplyErr(Arg(args, 1).n) = Errno(n)
    BY DEF FuseReplyErr, ERANGE
  <2>2. QED
    BY <1>2, <2>1 DEF Error, Sends, Errno
<1> HIDE DEF Sent
<1>4. Sent(Entry(args)) /\ Sent(Attributes(args)) /\ Sent(ReadLink(args)) /\ Sent(Open(args))
  <2>1. Sent(Entry(args))
    BY <1>1, <1>2, Zenon DEF Entry
  <2>2. Sent(Attributes(args))
    BY <1>1, <1>2, Zenon DEF Attributes
  <2>3. Sent(ReadLink(args))
    BY <1>1, <1>2, Zenon DEF ReadLink
  <2>4. Sent(Open(args))
    BY <1>1, <1>2, Zenon DEF Open
  <2>5. QED
    BY <2>1, <2>2, <2>3, <2>4
<1>5. /\ Sent(Buffer(layout, args)) /\ Sent(Write(args)) /\ Sent(StatFs(args))
      /\ Sent(Create(args)) /\ Sent(XAttributes(args)) /\ Sent(None)
  <2>1. Sent(Buffer(layout, args))
    BY <1>1, <1>2, Zenon DEF Buffer
  <2>2. Sent(Write(args)) /\ Sent(XAttributes(args)) /\ Sent(None)
    BY <1>1, <1>2, Zenon DEF Write, XAttributes, None
  <2>3. Sent(StatFs(args))
    BY <1>1, <1>2, Zenon DEF StatFs
  <2>4. Sent(Create(args))
    BY <1>1, <1>2, Zenon DEF Create
  <2>5. QED
    BY <2>1, <2>2, <2>3, <2>4
<1>6. AddDirEntry(args).answer = <<>>
  BY DEF AddDirEntry, Nothing, Crashes
<1>7. \/ Outcome(method, layout, args) \in
             {Entry(args), Attributes(args), ReadLink(args), Error(args), Open(args)}
      \/ Outcome(method, layout, args) \in
             {Buffer(layout, args), Write(args), StatFs(args), Create(args),
              XAttributes(args), AddDirEntry(args), None}
  BY Zenon DEF Outcome
<1>8. method = "addDirEntry" => Outcome(method, layout, args) = AddDirEntry(args)
  BY Zenon DEF Outcome
<1>9. Sent(Outcome(method, layout, args))
  <2>1. Sent(AddDirEntry(args))
    BY <1>6 DEF Sent
  <2>2. QED
    BY <1>3, <1>4, <1>5, <1>7, <2>1
<1>10. QED
  BY <1>6, <1>8, <1>9 DEF Sent

\* A sequence with its elements in a set is a sequence of that set.
LEMMA Retyped ==
    ASSUME NEW A, NEW B, NEW s \in Seq(A), \A i \in 1..Len(s) : s[i] \in B
    PROVE  s \in Seq(B)
<1>1. s = [i \in 1..Len(s) |-> s[i]] /\ Len(s) \in Nat
  OBVIOUS
<1>2. QED
  BY <1>1

\* A sequence of one element, and a sequence in which one element is replaced.
LEMMA Singleton ==
    ASSUME NEW S, NEW s \in Seq(S), Len(s) = 1 PROVE s[1] \in S /\ s = <<s[1]>>
<1>1. s[1] \in S
  OBVIOUS
<1>2. <<s[1]>> \in Seq(S) /\ Len(<<s[1]>>) = 1 /\ <<s[1]>>[1] = s[1]
  BY <1>1
<1>3. \A i \in 1..Len(s) : s[i] = <<s[1]>>[i]
  BY <1>2
<1>4. QED
  BY <1>1, <1>2, <1>3, SeqEqual

LEMMA Replaced ==
    ASSUME NEW S, NEW s \in Seq(S), NEW n \in 1..Len(s), NEW x \in S,
           NEW r, r = [s EXCEPT ![n] = x]
    PROVE  /\ r \in Seq(S) /\ Len(r) = Len(s) /\ DOMAIN r = DOMAIN s /\ r[n] = x
           /\ \A i \in 1..Len(s) : i # n => r[i] = s[i]
OBVIOUS

\* Such a list of answers has the type and the length that the invariant needs.
LEMMA OneOrNone ==
    ASSUME NEW a,
           \/ a = <<>>
           \/ \E k \in Service!AnswerKinds, e \in Int : a = <<[kind |-> k, errno |-> e]>>
    PROVE  /\ a \in Seq([kind : Service!AnswerKinds, errno : Int])
           /\ a = <<>> \/ Len(a) = 1
<1>1. CASE a = <<>>
  BY <1>1
<1>2. ASSUME NEW k \in Service!AnswerKinds, NEW e \in Int, a = <<[kind |-> k, errno |-> e]>>
      PROVE  a \in Seq([kind : Service!AnswerKinds, errno : Int]) /\ Len(a) = 1
  <2>1. [kind |-> k, errno |-> e] \in [kind : Service!AnswerKinds, errno : Int]
    OBVIOUS
  <2>2. QED
    BY <1>2, <2>1
<1>3. QED
  BY <1>1, <1>2

\* What may be left of a path once its first step is made: the steps behind that one,
\* or behind a later one.
Rests(path) == {Behind(path, i) : i \in 1..Len(path)}

LEMMA RestTyped ==
    ASSUME NEW path \in Seq(Steps), NEW i \in 1..Len(path)
    PROVE  /\ Behind(path, i) \in Seq(Steps)
           /\ Len(Behind(path, i)) = Len(path) - i
           /\ \A j \in 1..(Len(path) - i) : j + i \in 1..Len(path) /\ Behind(path, i)[j] = path[j + i]
<1>1. Len(path) \in Nat /\ i \in Nat /\ i + 1 \in 1..(Len(path) + 1)
  OBVIOUS
<1>2. \A j \in (i + 1)..Len(path) : path[j] \in Steps
  BY <1>1
<1>3. /\ SubSeq(path, i + 1, Len(path)) \in Seq(Steps)
      /\ Len(SubSeq(path, i + 1, Len(path))) =
            IF i + 1 <= Len(path) THEN Len(path) - (i + 1) + 1 ELSE 0
      /\ \A j \in 1..(Len(path) - (i + 1) + 1) :
            SubSeq(path, i + 1, Len(path))[j] = path[(i + 1) + j - 1]
  BY <1>1, <1>2, SubSeqProperties
<1>4. QED
  BY <1>1, <1>3 DEF Behind

\* The tail is what is left behind the first step.
LEMMA TailRest ==
    ASSUME NEW path \in Seq(Steps), path # <<>> PROVE Tail(path) \in Rests(path)
<1>1. /\ Tail(path) \in Seq(Steps) /\ Len(Tail(path)) = Len(path) - 1 /\ 1 \in 1..Len(path)
      /\ \A i \in 1..(Len(path) - 1) : Tail(path)[i] = path[i + 1]
  OBVIOUS
<1>2. Tail(path) = Behind(path, 1)
  BY <1>1, RestTyped, SeqEqual
<1>3. QED
  BY <1>1, <1>2 DEF Rests

\* The rest of a path has the replies of the path, but for the steps made.
LEMMA RestReplies ==
    ASSUME NEW path \in Seq(Steps), NEW rest \in Rests(path)
    PROVE  /\ rest \in Seq(Steps) /\ path # <<>>
           /\ RepliesOnce(path) => RepliesOnce(rest)
           /\ Replying(rest) # {} => Replying(path) # {}
           /\ RepliesOnce(path) /\ 1 \in Replying(path) => Replying(rest) = {}
<1>1. PICK n \in 1..Len(path) : rest = Behind(path, n)
  BY DEF Rests
<1>2. /\ rest \in Seq(Steps) /\ Len(path) \in Nat /\ path # <<>>
      /\ Len(rest) = Len(path) - n
      /\ \A i \in 1..Len(rest) : i + n \in 1..Len(path) /\ rest[i] = path[i + n]
  <2>1. /\ rest \in Seq(Steps) /\ Len(rest) = Len(path) - n
        /\ \A i \in 1..(Len(path) - n) : i + n \in 1..Len(path) /\ rest[i] = path[i + n]
    BY <1>1, RestTyped
  <2>2. Len(path) \in Nat /\ path # <<>>
    OBVIOUS
  <2>3. QED
    BY <2>1, <2>2
<1>3. \A i \in Replying(rest) : i \in Nat /\ i >= 1 /\ i + n \in Replying(path)
  BY <1>2 DEF Replying
<1>4. RepliesOnce(path) => RepliesOnce(rest)
  BY <1>3 DEF RepliesOnce
<1>5. RepliesOnce(path) /\ 1 \in Replying(path) => Replying(rest) = {}
  <2>1. \A i \in Replying(rest) : i + n # 1
    BY <1>3
  <2>2. QED
    BY <1>3, <2>1 DEF RepliesOnce
<1>6. QED
  BY <1>2, <1>3, <1>4, <1>5

-----------------------------------------------------------------------------
(* The invariant.                                                          *)

\* The file systems that reply once.
OnceEach == \A op \in Operations : \A path \in Handlers[op] : RepliesOnce(path)

\* The process begins without requests.
LEMMA ReplyInit == Init => ReplyInv
<1> SUFFICES ASSUME Init PROVE ReplyInv
  OBVIOUS
<1>1. Shapes
  BY DEF Init, Shapes
<1>2. \A w : ~ Held(w)
  BY DEF Init, Held, Runs
<1>3. OneActivation /\ OneAhead /\ AnsweredOnce
  BY <1>2 DEF Init, OneActivation, OneAhead, AnsweredOnce
<1>4. QED
  BY <1>1, <1>3 DEF ReplyInv

\* What is held is an activation of a request that has been dispatched.
LEMMA HeldTyped ==
    ASSUME ReplyInv
    PROVE  /\ \A w : Held(w) => w \in Activations /\ w.n \in 1..Len(answers)
           /\ \A v, w : <<v>> = <<w>> => v = w
           /\ \A w : <<w>>[1] = w /\ <<w>> # <<>>
           /\ DOMAIN answers = 1..Len(answers) /\ Len(answers) \in Nat /\ next \in Nat
<1>1. /\ \A v, w : <<v>> = <<w>> => v = w
      /\ \A w : <<w>>[1] = w /\ <<w>> # <<>>
  OBVIOUS
<1>2. DOMAIN answers = 1..Len(answers) /\ Len(answers) \in Nat /\ next \in Nat
  BY DEF ReplyInv, Shapes
<1>3. \A w : Held(w) => w \in Activations
  BY <1>1 DEF ReplyInv, Shapes, Held, Runs
<1>4. \A w : Held(w) => w.n \in 1..Len(answers)
  BY <1>3 DEF ReplyInv, Shapes, OneActivation
<1>5. QED
  BY <1>1, <1>2, <1>3, <1>4

\* The activation whose turn it is makes its next step, or ends.
LEMMA GoesOn ==
    ASSUME ReplyInv, NEW t \in Activations, Runs(t),
           \A w : Held(w)' =>
               \/ Held(w) /\ w # t
               \/ w.n = t.n /\ w.path \in Rests(t.path),
           \A v, w : Held(v)' /\ Held(w)' /\ v.n = t.n /\ w.n = t.n => v = w,
           \A w \in waiting' : ~ Runs(w)',
           next' = next, Len(answers') = Len(answers), DOMAIN answers' = DOMAIN answers,
           \A n \in 1..Len(answers) : n # t.n => answers'[n] = answers[n],
           \/ answers'[t.n] = answers[t.n]
           \/ t.path # <<>> /\ 1 \in Replying(t.path) /\ Len(answers'[t.n]) = 1
    PROVE  OneActivation' /\ OneAhead' /\ AnsweredOnce'
<1>1. Held(t) /\ t.n \in 1..(next - 1) /\ t.n \in 1..Len(answers) /\ t.path \in Seq(Steps)
  BY HeldTyped DEF ReplyInv, OneActivation, Held, Activations
<1>2. \A w : Held(w) /\ w # t => w.n # t.n
  BY <1>1 DEF ReplyInv, OneActivation
<1>3. \A w : Held(w)' /\ w.n # t.n => Held(w) /\ w # t
  OBVIOUS
<1>4. \A w : Held(w)' /\ w.n = t.n => w.path \in Rests(t.path)
  BY <1>2
<1>5. OneActivation'
  BY <1>1, <1>3 DEF ReplyInv, OneActivation
<1>6. \A w : Held(w)' => RepliesOnce(w.path)
  BY <1>1, <1>3, <1>4, RestReplies DEF ReplyInv, OneAhead
<1>7. \A w : Held(w)' /\ Replying(w.path) # {} => answers'[w.n] = <<>>
  <2> SUFFICES ASSUME NEW w, Held(w)', Replying(w.path) # {} PROVE answers'[w.n] = <<>>
    OBVIOUS
  <2>1. CASE w.n # t.n
    BY <1>3, <2>1, HeldTyped DEF ReplyInv, OneAhead
  <2>2. CASE w.n = t.n
    <3>1. w.path \in Rests(t.path)
      BY <1>4, <2>2
    <3>2. Replying(t.path) # {} /\ 1 \notin Replying(t.path)
      BY <1>1, <3>1, RestReplies DEF ReplyInv, OneAhead
    <3>3. QED
      BY <1>1, <2>2, <3>2 DEF ReplyInv, OneAhead
  <2>3. QED
    BY <2>1, <2>2
<1>8. OneAhead'
  <2>1. \A n \in 1..Len(answers) : n >= next => n # t.n
    BY <1>1, HeldTyped
  <2>2. QED
    BY <1>6, <1>7, <2>1 DEF ReplyInv, OneAhead
<1>9. AnsweredOnce'
  <2>1. \A n \in 1..Len(answers) : Len(answers[n]) <= 1
    <3>1. DOMAIN answers = 1..Len(answers)
      BY HeldTyped
    <3>2. QED
      BY <3>1 DEF ReplyInv, AnsweredOnce
  <2>2. ASSUME NEW n \in 1..Len(answers) PROVE Len(answers'[n]) <= 1
    <3>1. Len(answers'[n]) = Len(answers[n]) \/ Len(answers'[n]) = 1
      OBVIOUS
    <3>2. Len(answers[n]) \in Nat /\ Len(answers[n]) <= 1
      BY <2>1, HeldTyped DEF ReplyInv, Shapes
    <3>3. CASE Len(answers'[n]) = Len(answers[n])
      BY <3>2, <3>3, Zenon
    <3>4. CASE Len(answers'[n]) = 1
      BY <3>4
    <3>5. QED
      BY <3>1, <3>3, <3>4
  <2>3. QED
    BY <2>2, HeldTyped DEF AnsweredOnce
<1>10. QED
  BY <1>5, <1>8, <1>9

\* An exception ends the turn, or goes on with a rest of the path.
LEMMA Raised ==
    ASSUME ReplyInv, NEW t \in Activations, turn = <<t>>, NEW layout \in BOOLEAN, Raise(layout)
    PROVE  /\ \/ turn' = <<>>
              \/ \E w \in Activations :
                    turn' = <<w>> /\ w.n = t.n /\ w.path \in Rests(t.path)
           /\ status' \in {"up", "exited", "crashed"}
<1>1. turn[1] = t /\ t.n \in Nat /\ t.path \in Seq(Steps)
  BY DEF Activations
<1>2. CASE Uncaught
  BY <1>2 DEF Uncaught
<1>3. ASSUME NEW i \in CatchOf(t.path), UNCHANGED status,
             turn' = <<Activation(t.n, Behind(t.path, i), layout)>>
      PROVE  /\ \E w \in Activations :
                    turn' = <<w>> /\ w.n = t.n /\ w.path \in Rests(t.path)
             /\ status' \in {"up", "exited", "crashed"}
  <2>1. i \in 1..Len(t.path)
    BY DEF CatchOf
  <2>2. Behind(t.path, i) \in Rests(t.path) /\ Behind(t.path, i) \in Seq(Steps)
    BY <1>1, <2>1, RestTyped DEF Rests
  <2> DEFINE w == Activation(t.n, Behind(t.path, i), layout)
  <2>3. w \in Activations /\ w.n = t.n /\ w.path \in Rests(t.path)
    BY <1>1, <2>2 DEF Activation, Activations
  <2> HIDE DEF w
  <2>4. turn' = <<w>> /\ status' \in {"up", "exited", "crashed"}
    BY <1>3 DEF w, ReplyInv, Shapes
  <2>5. QED
    BY <2>3, <2>4
<1>4. QED
  BY <1>1, <1>2, <1>3 DEF Raise

\* What a call of a method does to the request and the turn.
LEMMA ReplyMakes ==
    ASSUME ReplyInv, Reply
    PROVE  \E t \in Activations, a \in Seq([kind : Service!AnswerKinds, errno : Int]) :
              /\ turn = <<t>> /\ t.path # <<>> /\ t.n \in 1..Len(answers)
              /\ answers' = [answers EXCEPT ![t.n] = @ \o a]
              /\ a = <<>> \/ (1 \in Replying(t.path) /\ Len(a) = 1)
              /\ a # <<>> => /\ 1 \in 1..Len(t.path) /\ t.path[1].do = "reply"
                             /\ a = Outcome(t.path[1].method, t.layout, t.path[1].args).answer
              /\ \/ turn' = <<>>
                 \/ \E w \in Activations : /\ turn' = <<w>>
                                           /\ w.n = t.n /\ w.path \in Rests(t.path)
              /\ UNCHANGED <<requests, next, waiting>>
              /\ status' \in {"up", "exited", "crashed"}
<1>1. PICK t \in Activations : turn = <<t>>
  BY DEF Reply, Running, ReplyInv, Shapes
<1>2. turn[1] = t /\ Held(t) /\ t.n \in 1..Len(answers) /\ t.n \in Nat
  BY <1>1, HeldTyped DEF Held, Runs
<1>3. t.path # <<>> /\ t.path \in Seq(Steps) /\ t.layout \in BOOLEAN /\ Head(t.path).do = "reply"
  BY <1>1, <1>2 DEF Reply, Running, Activations
<1> DEFINE s == Head(t.path)
           out == Outcome(s.method, t.layout, s.args)
<1>4. 1 \in 1..Len(t.path) /\ s = t.path[1] /\ Tail(t.path) \in Seq(Steps)
  BY <1>3
<1>5. answers' = [answers EXCEPT ![t.n] = @ \o out.answer]
  BY <1>2 DEF Reply, Receiver
<1>6. /\ \/ out.answer = <<>>
         \/ \E k \in Service!AnswerKinds, e \in Int : out.answer = <<[kind |-> k, errno |-> e]>>
      /\ s.method = "addDirEntry" => out.answer = <<>>
  BY OutcomeAnswers
<1>7. /\ out.answer \in Seq([kind : Service!AnswerKinds, errno : Int])
      /\ out.answer = <<>> \/ (1 \in Replying(t.path) /\ Len(out.answer) = 1)
  <2>1. out.answer # <<>> => 1 \in Replying(t.path)
    BY <1>3, <1>4, <1>6 DEF Replying
  <2> HIDE DEF out
  <2>2. /\ out.answer \in Seq([kind : Service!AnswerKinds, errno : Int])
        /\ out.answer = <<>> \/ Len(out.answer) = 1
    BY <1>6, OneOrNone, Zenon
  <2>3. QED
    BY <2>1, <2>2
<1>8. /\ \/ turn' = <<>>
         \/ \E w \in Activations : turn' = <<w>> /\ w.n = t.n /\ w.path \in Rests(t.path)
      /\ status' \in {"up", "exited", "crashed"}
  <2> DEFINE layout == t.layout \/ s.method = "addDirEntry"
             next_ == Activation(t.n, Tail(t.path), layout)
  <2>1. \/ turn' = <<>> /\ status' = "crashed"
        \/ Raise(layout)
        \/ turn' = <<next_>> /\ UNCHANGED status
    BY <1>2 DEF Reply
  <2>2. layout \in BOOLEAN
    OBVIOUS
  <2>3. next_ \in Activations /\ next_.n = t.n /\ next_.path \in Rests(t.path)
    BY <1>2, <1>3, <1>4, <2>2, TailRest DEF Activation, Activations
  <2>4. Raise(layout) =>
           /\ \/ turn' = <<>>
              \/ \E w \in Activations : turn' = <<w>> /\ w.n = t.n /\ w.path \in Rests(t.path)
           /\ status' \in {"up", "exited", "crashed"}
    BY <1>1, <2>2, Raised
  <2>5. QED
    BY <2>1, <2>3, <2>4 DEF ReplyInv, Shapes
<1>9. UNCHANGED <<requests, next, waiting>>
  BY DEF Reply
<1>10. QED
  BY <1>1, <1>2, <1>3, <1>4, <1>5, <1>7, <1>8, <1>9

-----------------------------------------------------------------------------
(* The steps.                                                              *)

\* A new request has no answer and no activation.
LEMMA AskStep == ASSUME ReplyInv, NEW op \in Operations, Ask(op) PROVE ReplyInv'
<1>1. /\ requests' = Append(requests, op) /\ answers' = Append(answers, <<>>)
      /\ UNCHANGED <<next, turn, waiting, status>>
  BY DEF Ask
<1>2. /\ Len(answers') = Len(answers) + 1 /\ answers'[Len(answers) + 1] = <<>>
      /\ \A n \in 1..Len(answers) : answers'[n] = answers[n]
      /\ DOMAIN answers' = 1..(Len(answers) + 1)
      /\ Len(requests') = Len(requests) + 1
  BY <1>1 DEF ReplyInv, Shapes
<1>3. Shapes'
  BY <1>1, <1>2 DEF ReplyInv, Shapes
<1>4. \A w : Held(w)' <=> Held(w)
  BY <1>1 DEF Held, Runs
<1>5. OneActivation'
  BY <1>1, <1>4 DEF ReplyInv, OneActivation, Runs
<1>6. OneAhead'
  <2>1. \A n \in 1..Len(answers') : n = Len(answers) + 1 \/ n \in 1..Len(answers)
    BY <1>2, HeldTyped
  <2>2. \A n \in 1..Len(answers') : n >= next => answers'[n] = <<>>
    BY <1>2, <2>1 DEF ReplyInv, OneAhead
  <2>3. \A w : Held(w) => answers'[w.n] = answers[w.n]
    BY <1>2, HeldTyped
  <2>4. QED
    BY <1>1, <1>4, <2>2, <2>3 DEF ReplyInv, OneAhead
<1>7. AnsweredOnce'
  <2>1. Len(<<>>) <= 1
    OBVIOUS
  <2>2. QED
    BY <1>2, <2>1, HeldTyped DEF ReplyInv, AnsweredOnce
<1>8. QED
  BY <1>3, <1>5, <1>6, <1>7 DEF ReplyInv

\* Dispatch starts the only activation of a request, on one of its handler's paths.
LEMMA DispatchStep == ASSUME ReplyInv, OnceEach, Dispatch PROVE ReplyInv'
<1>1. PICK path \in Handlers[requests[next]] : turn' = <<Activation(next, path, FALSE)>>
  BY DEF Dispatch
<1> DEFINE t == Activation(next, path, FALSE)
<1>2. /\ turn = <<>> /\ turn' = <<t>> /\ next' = next + 1 /\ next \in 1..Len(requests)
      /\ UNCHANGED <<requests, waiting, answers, status>>
  <2>1. next \in 1..Len(requests)
    BY DEF Dispatch, ReplyInv, Shapes
  <2>2. QED
    BY <1>1, <2>1 DEF Dispatch
<1>3. requests[next] \in Operations
  BY <1>2 DEF ReplyInv, Shapes
<1>4. path \in Seq(Steps) /\ RepliesOnce(path)
  BY <1>1, <1>3, RequestReplyAssumption DEF OnceEach
<1>5. t \in Activations /\ t.n = next /\ t.path = path
  BY <1>2, <1>4 DEF Activation, Activations
<1> HIDE DEF t
<1>6. Shapes'
  BY <1>2, <1>5 DEF ReplyInv, Shapes
<1>7. /\ \A w : Runs(w)' => w = t
      /\ \A w : Held(w)' => (Held(w) /\ w.n \in 1..(next - 1) /\ w.n # next) \/ w = t
      /\ \A w \in waiting : w.n # next /\ w # t
  <2>1. \A w : Runs(w)' => w = t
    BY <1>2, HeldTyped DEF Runs
  <2>2. \A w : Held(w) => w.n \in 1..(next - 1) /\ w.n # next
    BY HeldTyped DEF ReplyInv, OneActivation
  <2>3. \A w \in waiting : Held(w)
    BY DEF Held
  <2>4. QED
    BY <1>2, <1>5, <2>1, <2>2, <2>3 DEF Held
<1>8. OneActivation'
  BY <1>2, <1>5, <1>7, HeldTyped DEF ReplyInv, OneActivation
<1>9. OneAhead'
  <2>1. next \in 1..Len(answers) /\ answers[next] = <<>>
    BY <1>2, HeldTyped DEF ReplyInv, OneAhead, Shapes
  <2>2. \A n \in 1..Len(answers) : n >= next + 1 => n >= next
    BY HeldTyped
  <2>3. QED
    BY <1>2, <1>4, <1>5, <1>7, <2>1, <2>2 DEF ReplyInv, OneAhead
<1>10. QED
  BY <1>2, <1>6, <1>8, <1>9 DEF ReplyInv, AnsweredOnce

\* A reply is the first of its request and leaves no other ahead.
LEMMA ReplyStep == ASSUME ReplyInv, Reply PROVE ReplyInv'
<1>1. PICK t \in Activations, a \in Seq([kind : Service!AnswerKinds, errno : Int]) :
              /\ turn = <<t>> /\ t.path # <<>> /\ t.n \in 1..Len(answers)
              /\ answers' = [answers EXCEPT ![t.n] = @ \o a]
              /\ a = <<>> \/ (1 \in Replying(t.path) /\ Len(a) = 1)
              /\ \/ turn' = <<>>
                 \/ \E w \in Activations : /\ turn' = <<w>>
                                           /\ w.n = t.n /\ w.path \in Rests(t.path)
              /\ UNCHANGED <<requests, next, waiting>>
              /\ status' \in {"up", "exited", "crashed"}
  BY ReplyMakes
<1>2. Runs(t) /\ Held(t) /\ \A w : Runs(w) => w = t
  BY <1>1, HeldTyped DEF Runs, Held
<1>3. /\ DOMAIN answers' = DOMAIN answers /\ Len(answers') = Len(answers)
      /\ \A n \in 1..Len(answers) : n # t.n => answers'[n] = answers[n]
      /\ answers'[t.n] = answers[t.n] \o a
      /\ answers[t.n] \in Seq([kind : Service!AnswerKinds, errno : Int])
      /\ answers' \in Seq(Seq([kind : Service!AnswerKinds, errno : Int]))
  <2> DEFINE Lists == Seq([kind : Service!AnswerKinds, errno : Int])
  <2>1. answers \in Seq(Lists) /\ answers[t.n] \in Lists
    BY <1>1 DEF ReplyInv, Shapes
  <2>2. answers[t.n] \o a \in Lists
    BY <1>1, <2>1
  <2> HIDE DEF Lists
  <2>3. /\ answers' \in Seq(Lists) /\ Len(answers') = Len(answers)
        /\ DOMAIN answers' = DOMAIN answers
        /\ answers'[t.n] = answers[t.n] \o a
        /\ \A n \in 1..Len(answers) : n # t.n => answers'[n] = answers[n]
    BY <1>1, <2>1, <2>2
  <2>4. QED
    BY <2>1, <2>3 DEF Lists
<1>4. Shapes'
  BY <1>1, <1>3 DEF ReplyInv, Shapes
<1>5. \A w : Runs(w)' => w.n = t.n /\ w.path \in Rests(t.path)
  BY <1>1, HeldTyped DEF Runs
<1>6. \A v, w : Runs(v)' /\ Runs(w)' => v = w
  BY <1>1, HeldTyped DEF Runs
<1>7. \A w \in waiting' : w \in waiting /\ w # t /\ w.n # t.n /\ Held(w)
  BY <1>1, <1>2 DEF ReplyInv, OneActivation, Held
<1>8. \/ answers'[t.n] = answers[t.n]
      \/ t.path # <<>> /\ 1 \in Replying(t.path) /\ Len(answers'[t.n]) = 1
  <2>1. CASE a = <<>>
    BY <1>3, <2>1
  <2>2. CASE 1 \in Replying(t.path) /\ Len(a) = 1
    <3>1. answers[t.n] = <<>>
      BY <1>2, <2>2 DEF ReplyInv, OneAhead
    <3>2. answers'[t.n] = a
      BY <1>3, <3>1
    <3>3. QED
      BY <1>1, <2>2, <3>2, Zenon
  <2>3. QED
    BY <1>1, <2>1, <2>2
<1>9. \A w : Held(w)' => \/ Held(w) /\ w # t
                         \/ w.n = t.n /\ w.path \in Rests(t.path)
  BY <1>1, <1>5, <1>7 DEF Held
<1>10. \A v, w : Held(v)' /\ Held(w)' /\ v.n = t.n /\ w.n = t.n => v = w
  BY <1>6, <1>7 DEF Held
<1>11. \A w \in waiting' : ~ Runs(w)'
  BY <1>5, <1>7
<1>12. OneActivation' /\ OneAhead' /\ AnsweredOnce'
  BY <1>1, <1>2, <1>3, <1>8, <1>9, <1>10, <1>11, GoesOn
<1>13. QED
  BY <1>4, <1>12 DEF ReplyInv

\* An exception of the handler's own, and the way past a catch block or out of it.
LEMMA BlockMakes ==
    ASSUME ReplyInv, Throw \/ LeaveTry
    PROVE  \E t \in Activations :
              /\ turn = <<t>>
              /\ \/ turn' = <<>>
                 \/ \E w \in Activations :
                       turn' = <<w>> /\ w.n = t.n /\ w.path \in Rests(t.path)
              /\ UNCHANGED <<requests, next, waiting, answers>>
              /\ status' \in {"up", "exited", "crashed"}
<1>1. PICK t \in Activations : turn = <<t>>
  BY DEF Throw, LeaveTry, Running, ReplyInv, Shapes
<1>2. turn[1] = t /\ t.layout \in BOOLEAN /\ t.path \in Seq(Steps)
  BY <1>1 DEF Activations
<1>3. CASE Throw
  BY <1>1, <1>2, <1>3, Raised DEF Throw
<1>4. CASE LeaveTry
  <2>1. PICK i \in EndOf(t.path) : turn' = <<[t EXCEPT !.path = Behind(@, i)]>>
    BY <1>2, <1>4 DEF LeaveTry
  <2>2. i \in 1..Len(t.path)
    BY DEF EndOf
  <2>3. Behind(t.path, i) \in Rests(t.path) /\ Behind(t.path, i) \in Seq(Steps)
    BY <1>2, <2>2, RestTyped DEF Rests
  <2> DEFINE w == [t EXCEPT !.path = Behind(@, i)]
  <2>4. w \in Activations /\ w.n = t.n /\ w.path \in Rests(t.path)
    BY <2>3 DEF Activations
  <2>5. turn' = <<w>>
    BY <2>1
  <2> HIDE DEF w
  <2>6. /\ UNCHANGED <<requests, next, waiting, answers>>
        /\ status' \in {"up", "exited", "crashed"}
    BY <1>4 DEF LeaveTry, ReplyInv, Shapes
  <2>7. QED
    BY <1>1, <2>4, <2>5, <2>6
<1>5. QED
  BY <1>3, <1>4

LEMMA BlockStep == ASSUME ReplyInv, Throw \/ LeaveTry PROVE ReplyInv'
<1>1. PICK t \in Activations :
              /\ turn = <<t>>
              /\ \/ turn' = <<>>
                 \/ \E w \in Activations :
                       turn' = <<w>> /\ w.n = t.n /\ w.path \in Rests(t.path)
              /\ UNCHANGED <<requests, next, waiting, answers>>
              /\ status' \in {"up", "exited", "crashed"}
  BY BlockMakes
<1>2. Runs(t) /\ Held(t)
  BY <1>1 DEF Runs, Held
<1>3. Shapes'
  BY <1>1 DEF ReplyInv, Shapes
<1>4. \A w : Runs(w)' => w.n = t.n /\ w.path \in Rests(t.path)
  BY <1>1, HeldTyped DEF Runs
<1>5. \A v, w : Runs(v)' /\ Runs(w)' => v = w
  BY <1>1, HeldTyped DEF Runs
<1>6. \A w \in waiting' : w \in waiting /\ w # t /\ w.n # t.n /\ Held(w)
  BY <1>1, <1>2 DEF ReplyInv, OneActivation, Held
<1>7. \A w : Held(w)' => \/ Held(w) /\ w # t
                         \/ w.n = t.n /\ w.path \in Rests(t.path)
  BY <1>4, <1>6 DEF Held
<1>8. \A v, w : Held(v)' /\ Held(w)' /\ v.n = t.n /\ w.n = t.n => v = w
  BY <1>5, <1>6 DEF Held
<1>9. \A w \in waiting' : ~ Runs(w)'
  BY <1>4, <1>6
<1>10. OneActivation' /\ OneAhead' /\ AnsweredOnce'
  BY <1>1, <1>2, <1>7, <1>8, <1>9, GoesOn
<1>11. QED
  BY <1>3, <1>10 DEF ReplyInv

\* An activation that waits or ends keeps what is ahead of it.
LEMMA TurnStep ==
    ASSUME ReplyInv, Await \/ Return PROVE ReplyInv'
<1>1. PICK t \in Activations : turn = <<t>>
  BY DEF Await, Return, Running, ReplyInv, Shapes
<1>2. /\ turn' = <<>> /\ UNCHANGED <<requests, next, answers>>
      /\ status' \in {"up", "exited", "crashed"}
      /\ \/ waiting' = waiting
         \/ waiting' = waiting \cup {[t EXCEPT !.path = Tail(@)]} /\ t.path # <<>>
  BY <1>1 DEF Await, Return, Running, ReplyInv, Shapes
<1>3. Runs(t) /\ Held(t) /\ \A w : Runs(w) => w = t
  BY <1>1, HeldTyped DEF Runs, Held
<1> DEFINE u == [t EXCEPT !.path = Tail(@)]
<1>4. t.path # <<>> => u \in Activations /\ u.n = t.n /\ u.path \in Rests(t.path)
  <2>1. t.path \in Seq(Steps)
    BY DEF Activations
  <2>2. t.path # <<>> => Tail(t.path) \in Seq(Steps) /\ Tail(t.path) \in Rests(t.path)
    BY <2>1, TailRest
  <2>3. QED
    BY <2>2 DEF Activations
<1> HIDE DEF u
<1>5. Shapes'
  BY <1>2, <1>4 DEF ReplyInv, Shapes, u
<1>6. \A w : ~ Runs(w)'
  BY <1>2 DEF Runs
<1>7. \A w \in waiting : w # t /\ w.n # t.n /\ Held(w)
  BY <1>3 DEF ReplyInv, OneActivation, Held
<1>8. \A w : Held(w)' => w \in waiting \/ (w = u /\ t.path # <<>>)
  BY <1>2, <1>6 DEF Held, u
<1>9. OneActivation' /\ OneAhead' /\ AnsweredOnce'
  <2>1. \A w : Held(w)' => \/ Held(w) /\ w # t
                           \/ w.n = t.n /\ w.path \in Rests(t.path)
    BY <1>4, <1>7, <1>8
  <2>2. \A v, w : Held(v)' /\ Held(w)' /\ v.n = t.n /\ w.n = t.n => v = w
    BY <1>7, <1>8
  <2>3. QED
    BY <1>2, <1>3, <1>6, <2>1, <2>2, GoesOn
<1>10. QED
  BY <1>5, <1>9 DEF ReplyInv

\* A callback takes its activation out of the waiting ones.
LEMMA ResumeStep == ASSUME ReplyInv, NEW n, Resume(n) PROVE ReplyInv'
<1>1. PICK t \in waiting : turn' = <<t>> /\ waiting' = waiting \ {t}
  BY DEF Resume
<1>2. turn = <<>> /\ UNCHANGED <<requests, next, answers, status>>
  BY DEF Resume
<1>3. Shapes'
  BY <1>1, <1>2 DEF ReplyInv, Shapes
<1>4. /\ \A w : Runs(w)' => w = t
      /\ \A w : Held(w)' => Held(w)
      /\ \A w \in waiting' : w # t
  BY <1>1, <1>2, HeldTyped DEF Runs, Held
<1>5. OneActivation' /\ OneAhead' /\ AnsweredOnce'
  BY <1>2, <1>4 DEF ReplyInv, OneActivation, OneAhead, AnsweredOnce
<1>6. QED
  BY <1>3, <1>5 DEF ReplyInv

\* Every step keeps the invariant.
LEMMA ReplyInvStep == ASSUME ReplyInv, OnceEach, [Next]_vars PROVE ReplyInv'
<1>1. CASE UNCHANGED vars
  BY <1>1 DEF vars, ReplyInv, Shapes, OneActivation, OneAhead, AnsweredOnce, Held, Runs
<1>2. CASE Next
  BY <1>2, AskStep, DispatchStep, ReplyStep, BlockStep, TurnStep, ResumeStep
     DEF Next, JavaScript
<1>3. QED
  BY <1>1, <1>2

\* No request is answered twice, whatever the handlers do at once and in callbacks
\* and however they are interleaved, if each replies once.
THEOREM OneAnswer == ASSUME OnceEach PROVE Spec => []AnsweredOnce
<1>1. ReplyInv /\ [Next]_vars => ReplyInv'
  BY ReplyInvStep
<1>2. ReplyInv => AnsweredOnce
  BY DEF ReplyInv
<1>3. QED
  BY <1>1, <1>2, ReplyInit, PTL DEF Spec

-----------------------------------------------------------------------------
(* The kernel gets what the API documents.                                 *)

\* The file systems whose handlers keep to the API.
AsDocumented ==
    \A op \in Operations : \A path \in Handlers[op] :
        RepliesOnce(path) /\ RepliesValidly(op, path)

ValidAhead ==
    /\ \A w : Held(w) => RepliesValidly(requests[w.n], w.path)
    /\ \A n \in 1..Len(answers) : \A i \in 1..Len(answers[n]) :
          answers[n][i].errno \in {0} \cup Errors

\* The rest of a path is as valid as the path.
LEMMA RestValid ==
    ASSUME NEW op, NEW path \in Seq(Steps), NEW rest \in Rests(path), RepliesValidly(op, path)
    PROVE  RepliesValidly(op, rest)
<1>1. PICK n \in 1..Len(path) : rest = Behind(path, n)
  BY DEF Rests
<1>2. \A i \in 1..Len(rest) : i + n \in 1..Len(path) /\ rest[i] = path[i + n]
  BY <1>1, RestTyped
<1>3. QED
  BY <1>2 DEF RepliesValidly

\* An answer that a valid reply sends, added to none.
LEMMA ReplyServes ==
    ASSUME ReplyInv, ValidAhead, Reply
    PROVE  [Service!Next]_(Service!serviceVars) /\ ValidAhead'
<1>1. PICK t \in Activations, a \in Seq([kind : Service!AnswerKinds, errno : Int]) :
              /\ turn = <<t>> /\ t.path # <<>> /\ t.n \in 1..Len(answers)
              /\ answers' = [answers EXCEPT ![t.n] = @ \o a]
              /\ a = <<>> \/ (1 \in Replying(t.path) /\ Len(a) = 1)
              /\ a # <<>> => /\ 1 \in 1..Len(t.path) /\ t.path[1].do = "reply"
                             /\ a = Outcome(t.path[1].method, t.layout, t.path[1].args).answer
              /\ \/ turn' = <<>>
                 \/ \E w \in Activations : /\ turn' = <<w>>
                                           /\ w.n = t.n /\ w.path \in Rests(t.path)
              /\ UNCHANGED <<requests, next, waiting>>
  BY ReplyMakes
<1>2. /\ Held(t) /\ t.path \in Seq(Steps) /\ t.layout \in BOOLEAN
      /\ RepliesValidly(requests[t.n], t.path)
  BY <1>1 DEF Held, Runs, ValidAhead, Activations
<1>3. \A w : Held(w)' => RepliesValidly(requests[w.n], w.path)
  <2>1. \A w : Runs(w)' => w.n = t.n /\ w.path \in Rests(t.path)
    BY <1>1, HeldTyped DEF Runs
  <2>2. \A w : Held(w)' => Held(w) \/ Runs(w)'
    BY <1>1 DEF Held
  <2>3. QED
    BY <1>1, <1>2, <2>1, <2>2, RestValid DEF ValidAhead
<1> DEFINE Lists == Seq([kind : Service!AnswerKinds, errno : Int])
<1>4. answers \in Seq(Lists) /\ answers[t.n] \in Lists
  BY <1>1 DEF ReplyInv, Shapes
<1>5. CASE a = <<>>
  <2>1. answers[t.n] \o a = answers[t.n]
    BY <1>4, <1>5
  <2>2. answers' = answers
    BY <1>1, <1>4, <2>1 DEF Lists
  <2>3. QED
    BY <1>1, <1>3, <2>2 DEF ValidAhead, Service!serviceVars
<1>6. CASE a # <<>>
  <2>1. answers[t.n] = <<>> /\ Len(a) = 1
    BY <1>1, <1>2, <1>6 DEF ReplyInv, OneAhead
  <2>2. /\ a[1] \in [kind : Service!AnswerKinds, errno : Int] /\ a = <<a[1]>>
        /\ a \in Seq([kind : Service!AnswerKinds, errno : Int])
    BY <2>1, Singleton
  <2>3. Service!IsValid(requests[t.n], a[1])
    BY <1>1, <1>2, <1>6 DEF RepliesValidly
  <2>4. a[1].errno \in {0} \cup Errors
    BY <2>3 DEF Service!IsValid
  <2>5. a[1] \in [kind : {Service!ReplyOf(requests[t.n]), "err"}, errno : {0} \cup Errors]
    BY <2>2, <2>3, <2>4 DEF Service!IsValid
  <2>6. answers' = [answers EXCEPT ![t.n] = <<a[1]>>]
    <3>1. <<>> \o a = a
      BY <2>2
    <3>2. answers' = [answers EXCEPT ![t.n] = a]
      BY <1>1, <2>1, <3>1
    <3>3. QED
      BY <2>2, <3>2
  <2>7. t.n \in DOMAIN requests
    BY <1>1 DEF ReplyInv, Shapes
  <2>8. Service!Answer(t.n)
    BY <1>1, <2>1, <2>3, <2>5, <2>6 DEF Service!Answer
  <2>9. ValidAhead'
    <3>1. /\ Len(answers') = Len(answers) /\ answers'[t.n] = <<a[1]>>
          /\ \A n \in 1..Len(answers) : n # t.n => answers'[n] = answers[n]
      <4>1. <<a[1]>> \in Lists
        BY <2>2
      <4> HIDE DEF Lists
      <4>2. /\ Len(answers') = Len(answers) /\ answers'[t.n] = <<a[1]>>
            /\ \A i \in 1..Len(answers) : i # t.n => answers'[i] = answers[i]
        <5>1. t.n \in 1..Len(answers) /\ answers \in Seq(Lists)
          BY <1>1, <1>4
        <5>2. QED
          BY <2>6, <4>1, <5>1, Replaced
      <4>3. QED
        BY <4>2
    <3>2. \A n \in 1..Len(answers) : \A i \in 1..Len(answers'[n]) :
              answers'[n][i].errno \in {0} \cup Errors
      <4> SUFFICES ASSUME NEW n \in 1..Len(answers), NEW i \in 1..Len(answers'[n])
                   PROVE  answers'[n][i].errno \in {0} \cup Errors
        OBVIOUS
      <4>1. CASE n = t.n
        <5>1. answers'[n][i] = a[1]
          BY <3>1, <4>1
        <5>2. QED
          BY <2>4, <5>1
      <4>2. CASE n # t.n
        BY <3>1, <4>2 DEF ValidAhead
      <4>3. QED
        BY <4>1, <4>2
    <3>3. QED
      BY <1>1, <1>3, <3>1, <3>2 DEF ValidAhead
  <2>10. QED
    BY <2>7, <2>8, <2>9 DEF Service!Next
<1>7. QED
  BY <1>5, <1>6

\* Every step is a step of the service or leaves it alone.
LEMMA StepServes ==
    ASSUME ReplyInv, ValidAhead, AsDocumented, [Next]_vars
    PROVE  [Service!Next]_(Service!serviceVars) /\ ValidAhead'
<1>1. ASSUME UNCHANGED <<requests, answers>>, \A w : Held(w)' => Held(w)
      PROVE  [Service!Next]_(Service!serviceVars) /\ ValidAhead'
  BY <1>1 DEF ValidAhead, Service!serviceVars
<1>2. ASSUME NEW op \in Operations, Ask(op)
      PROVE  [Service!Next]_(Service!serviceVars) /\ ValidAhead'
  <2>1. Service!Ask(op)
    BY <1>2 DEF Ask, Service!Ask
  <2>2. /\ \A n \in 1..Len(answers) : answers'[n] = answers[n] /\ requests'[n] = requests[n]
        /\ \A n \in 1..Len(answers') : n \in 1..Len(answers) \/ answers'[n] = <<>>
    BY <2>1 DEF Service!Ask, ReplyInv, Shapes
  <2>3. \A w : Held(w)' <=> Held(w)
    BY <1>2 DEF Ask, Held, Runs
  <2>4. \A n \in 1..Len(answers') : \A i \in 1..Len(answers'[n]) :
            answers'[n][i].errno \in {0} \cup Errors
    BY <2>2 DEF ValidAhead
  <2>5. \A w : Held(w)' => RepliesValidly(requests'[w.n], w.path)
    BY <2>2, <2>3, HeldTyped DEF ValidAhead
  <2>6. QED
    BY <2>1, <2>4, <2>5 DEF Service!Next, ValidAhead
<1>3. CASE Dispatch
  <2>1. /\ turn = <<>> /\ next \in 1..Len(requests)
        /\ UNCHANGED <<requests, waiting, answers>>
    BY <1>3 DEF Dispatch, ReplyInv, Shapes
  <2>2. PICK path \in Handlers[requests[next]] : turn' = <<Activation(next, path, FALSE)>>
    BY <1>3 DEF Dispatch
  <2>3. RepliesValidly(requests[next], path)
    <3>1. requests[next] \in Operations
      BY <2>1 DEF ReplyInv, Shapes
    <3>2. QED
      BY <2>2, <3>1 DEF AsDocumented
  <2>4. \A w : Runs(w)' => w.n = next /\ w.path = path
    BY <2>2, HeldTyped DEF Runs, Activation
  <2>5. \A w : Held(w)' => Held(w) \/ Runs(w)'
    BY <2>1 DEF Held
  <2>6. QED
    BY <2>1, <2>3, <2>4, <2>5 DEF ValidAhead, Service!serviceVars
<1>4. CASE Return
  <2>1. turn' = <<>> /\ UNCHANGED <<requests, waiting, answers>>
    BY <1>4 DEF Return
  <2>2. QED
    BY <1>1, <2>1, HeldTyped DEF Held, Runs
<1>5. CASE Await
  <2>1. PICK t \in Activations : turn = <<t>>
    BY <1>5 DEF Await, Running, ReplyInv, Shapes
  <2>2. /\ turn' = <<>> /\ UNCHANGED <<requests, answers>> /\ t.path # <<>>
        /\ waiting' = waiting \cup {[t EXCEPT !.path = Tail(@)]}
    BY <1>5, <2>1 DEF Await, Running
  <2>3. /\ [t EXCEPT !.path = Tail(@)].n = t.n
        /\ [t EXCEPT !.path = Tail(@)].path = Tail(t.path)
        /\ t.path \in Seq(Steps)
    BY DEF Activations
  <2>4. \A w : Held(w)' => Held(w) \/ (w.n = t.n /\ w.path = Tail(t.path))
    BY <2>2, <2>3, HeldTyped DEF Held, Runs
  <2>5. RepliesValidly(requests[t.n], Tail(t.path))
    BY <2>1, <2>2, <2>3, TailRest, RestValid DEF ValidAhead, Held, Runs
  <2>6. QED
    BY <2>2, <2>4, <2>5 DEF ValidAhead, Service!serviceVars
<1>6. ASSUME NEW n, Resume(n) PROVE [Service!Next]_(Service!serviceVars) /\ ValidAhead'
  <2>1. UNCHANGED <<requests, answers>>
    BY <1>6 DEF Resume
  <2>2. PICK t \in waiting : turn' = <<t>> /\ waiting' = waiting \ {t}
    BY <1>6 DEF Resume
  <2>3. \A w : Held(w)' => Held(w)
    BY <2>2, HeldTyped DEF Held, Runs
  <2>4. QED
    BY <1>1, <2>1, <2>3
<1>7. CASE Throw \/ LeaveTry
  <2>1. PICK t \in Activations :
              /\ turn = <<t>>
              /\ \/ turn' = <<>>
                 \/ \E w \in Activations :
                       turn' = <<w>> /\ w.n = t.n /\ w.path \in Rests(t.path)
              /\ UNCHANGED <<requests, waiting, answers>>
    BY <1>7, BlockMakes
  <2>2. t.path \in Seq(Steps) /\ RepliesValidly(requests[t.n], t.path)
    BY <2>1 DEF Activations, ValidAhead, Held, Runs
  <2>3. \A w : Runs(w)' => w.n = t.n /\ w.path \in Rests(t.path)
    BY <2>1, HeldTyped DEF Runs
  <2>4. \A w : Held(w)' => Held(w) \/ Runs(w)'
    BY <2>1 DEF Held
  <2>5. \A w : Held(w)' => RepliesValidly(requests[w.n], w.path)
    BY <2>2, <2>3, <2>4, RestValid DEF ValidAhead
  <2>6. QED
    BY <2>1, <2>5 DEF ValidAhead, Service!serviceVars
<1>8. CASE UNCHANGED vars
  BY <1>1, <1>8 DEF vars, Held, Runs
<1>9. QED
  BY <1>2, <1>3, <1>4, <1>5, <1>6, <1>7, <1>8, ReplyServes DEF Next, JavaScript

\* The invariant of the file systems that keep to the API.
LEMMA ServedInvariant == ASSUME AsDocumented PROVE Spec => [](ReplyInv /\ ValidAhead)
<1>1. Init => ValidAhead
  BY DEF Init, ValidAhead, Held, Runs
<1>2. OnceEach
  BY DEF AsDocumented, OnceEach
<1>3. ReplyInv /\ ValidAhead /\ [Next]_vars => ReplyInv' /\ ValidAhead'
  BY <1>2, ReplyInvStep, StepServes
<1>4. QED
  BY <1>1, <1>3, ReplyInit, PTL DEF Spec

\* The state has its type: the answers, among others, are of the kinds that libfuse
\* knows and carry the file system's error numbers.
THEOREM ReplyTypes == ASSUME AsDocumented PROVE Spec => []TypeOK
<1>1. ASSUME ReplyInv, ValidAhead PROVE TypeOK
  <2>1. \A n \in 1..Len(answers) :
            answers[n] \in Seq([kind : Service!AnswerKinds, errno : {0} \cup Errors])
    <3> SUFFICES ASSUME NEW n \in 1..Len(answers)
                 PROVE answers[n] \in Seq([kind : Service!AnswerKinds, errno : {0} \cup Errors])
      OBVIOUS
    <3>1. answers[n] \in Seq([kind : Service!AnswerKinds, errno : Int])
      BY <1>1 DEF ReplyInv, Shapes
    <3>2. \A i \in 1..Len(answers[n]) :
              answers[n][i] \in [kind : Service!AnswerKinds, errno : {0} \cup Errors]
      <4>1. \A i \in 1..Len(answers[n]) :
                answers[n][i] \in [kind : Service!AnswerKinds, errno : Int]
        BY <3>1, ElementOfSeq
      <4>2. QED
        BY <1>1, <4>1 DEF ValidAhead
    <3>3. QED
      BY <3>1, <3>2, Retyped
  <2>2. answers \in Seq(Seq([kind : Service!AnswerKinds, errno : {0} \cup Errors]))
    <3>1. answers \in Seq(Seq([kind : Service!AnswerKinds, errno : Int]))
      BY <1>1 DEF ReplyInv, Shapes
    <3>2. QED
      BY <2>1, <3>1, Retyped
  <2>3. /\ \A i \in DOMAIN turn : turn[i].n \in 1..(next - 1)
        /\ Len(turn) <= 1
    <3>1. CASE turn = <<>>
      BY <3>1
    <3>2. ASSUME NEW t \in Activations, turn = <<t>>
          PROVE  Len(turn) <= 1 /\ \A i \in DOMAIN turn : turn[i].n \in 1..(next - 1)
      <4>1. t.n \in 1..(next - 1)
        BY <1>1, <3>2 DEF ReplyInv, OneActivation, Held, Runs
      <4>2. Len(turn) = 1 /\ DOMAIN turn = {1} /\ turn[1] = t
        BY <3>2
      <4>3. QED
        BY <4>1, <4>2
    <3>3. QED
      BY <1>1, <3>1, <3>2 DEF ReplyInv, Shapes
  <2>4. \A w \in waiting : w.n \in 1..(next - 1)
    BY <1>1 DEF ReplyInv, OneActivation, Held
  <2>5. QED
    BY <1>1, <2>2, <2>3, <2>4 DEF TypeOK, ReplyInv, Shapes
<1>2. QED
  BY <1>1, ServedInvariant, PTL

\* What the kernel gets is what the API documents, in answer to the request it made
\* and never twice, if every path of every handler replies at most once and with
\* what its operation documents.
THEOREM AnsweredAsDocumented == ASSUME AsDocumented PROVE Spec => ImplementsAnswerService
<1>1. Init => Service!Init
  BY DEF Init, Service!Init
<1>2. ReplyInv /\ ValidAhead /\ [Next]_vars => [Service!Next]_(Service!serviceVars)
  BY StepServes
<1>3. QED
  BY <1>1, <1>2, ServedInvariant, PTL DEF Spec, ImplementsAnswerService, Service!Spec
=============================================================================
