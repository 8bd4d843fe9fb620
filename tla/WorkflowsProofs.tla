--------------------------- MODULE WorkflowsProofs ---------------------------
(***************************************************************************)
(* For any keys and any form: the workflows leave no key down, nor a       *)
(* button unless a drag broke off, and their reports are honest.  At the   *)
(* end, for any processes and threads: the stop that every action of       *)
(* theirs looks at is heeded.                                              *)
(*                                                                         *)
(* The argument: the plan of every action releases what it presses (Tidy), *)
(* so whatever is left of it settles the keys that are down, and a drag    *)
(* presses nothing but the left button; and each step of a script leaves   *)
(* the keyboard where the next one needs it (Leads), so a workflow that    *)
(* nobody disturbs brings each text to its place.                          *)
(***************************************************************************)
EXTENDS Workflows, EmergencyStop, TLAPS, SequenceTheorems

-----------------------------------------------------------------------------
(* The keys, texts and controls a step can name. *)
Words == Key \cup Range(Fields) \cup
         {"none", "left", "HYPER", "url", "path", "filename", "content",
          "page", "address", "name", "desktop", "menu", "editor"}
(* The events of the input backend. *)
Events == [do : {"down", "up", "move", "char", "copy"}, key : Words]

(* Where the elements of two lists are in their concatenation. *)
LEMMA ConcatAt ==
  ASSUME NEW S, NEW x \in Seq(S), NEW y \in Seq(S)
  PROVE  /\ x \o y \in Seq(S) /\ Len(x \o y) = Len(x) + Len(y)
         /\ \A i \in 1 .. Len(x) : (x \o y)[i] = x[i]
         /\ \A i \in 1 .. Len(y) : (x \o y)[Len(x) + i] = y[i]
<1>1. /\ x \o y \in Seq(S) /\ Len(x \o y) = Len(x) + Len(y)
  BY ConcatProperties
<1>2. \A i \in 1 .. Len(x) + Len(y) : (x \o y)[i] = IF i <= Len(x) THEN x[i] ELSE y[i - Len(x)]
  BY ConcatProperties
<1>3. Len(x) \in Nat /\ Len(y) \in Nat OBVIOUS
<1>4. ASSUME NEW i \in 1 .. Len(x)  PROVE (x \o y)[i] = x[i]
  BY <1>2, <1>3
<1>5. ASSUME NEW i \in 1 .. Len(y)  PROVE (x \o y)[Len(x) + i] = y[i]
  <2>1. Len(x) + i \in 1 .. Len(x) + Len(y) /\ ~(Len(x) + i <= Len(x)) /\ Len(x) + i - Len(x) = i
    BY <1>3
  <2> QED BY <1>2, <2>1
<1> QED BY <1>1, <1>4, <1>5

(* Whatever a plan presses it releases later, and it presses nothing but
   Shift before a character.                                             *)
Tidy(plan) ==
    \A j \in 1 .. Len(plan) :
        /\ plan[j].do = "down" => \E i \in j + 1 .. Len(plan) : plan[i] = Up(plan[j].key)
        /\ plan[j].do = "char" => \A i \in 1 .. j : plan[i].do = "down" => plan[i].key = "SHIFT"

(* A plan that releases nothing but the left button. *)
LeftOnly(plan) == \A j \in 1 .. Len(plan) : plan[j].do = "up" => plan[j].key = "left"

(* Two lists of two make a list of four. *)
LEMMA TwoAndTwo ==
  ASSUME NEW S, NEW x \in Seq(S), NEW y \in Seq(S), Len(x) = 2, Len(y) = 2
  PROVE  /\ x \o y \in Seq(S) /\ Len(x \o y) = 4
         /\ (x \o y)[1] = x[1] /\ (x \o y)[2] = x[2]
         /\ (x \o y)[3] = y[1] /\ (x \o y)[4] = y[2]
<1>1. x \o y \in Seq(S) /\ Len(x \o y) = 4
  BY ConcatAt
<1>2. 1 \in 1 .. Len(x) /\ 2 \in 1 .. Len(x) /\ 1 \in 1 .. Len(y) /\ 2 \in 1 .. Len(y)
      /\ Len(x) + 1 = 3 /\ Len(x) + 2 = 4
  OBVIOUS
<1>3. (x \o y)[1] = x[1] /\ (x \o y)[2] = x[2]
  BY ONLY <1>2, ConcatAt, x \in Seq(S), y \in Seq(S)
<1>4. (x \o y)[Len(x) + 1] = y[1] /\ (x \o y)[Len(x) + 2] = y[2]
  BY ONLY <1>2, ConcatAt, x \in Seq(S), y \in Seq(S)
<1>5. QED  BY <1>1, <1>2, <1>3, <1>4

(* What the scripts name is a word. *)
LEMMA KnownWords ==
  /\ Key \subseteq Words /\ Range(Fields) \subseteq Words
  /\ {"CTRL", "SHIFT", "ENTER", "A", "L", "S", "V"} \subseteq Words
  /\ {"none", "left", "HYPER", "url", "path", "filename", "content",
          "page", "address", "name", "desktop", "menu", "editor"} \subseteq Words
  BY WorkflowAssumption DEF Words

(* Moving the pointer is an event. *)
LEMMA MoveKind == Move \in Events
  BY KnownWords DEF Move, Events

(* The keys of a combination, and of a paste, are released in reverse.     *)
LEMMA TidyCombination ==
  ASSUME NEW plan, NEW k, Len(plan) = 4, plan[1] = Down("CTRL"), plan[2] = Down(k),
         plan[3] = Up(k), plan[4] = Up("CTRL")
  PROVE  Tidy(plan)
<1> SUFFICES ASSUME NEW j \in 1 .. 4
             PROVE  /\ plan[j].do # "char"
                    /\ plan[j].do = "down" => \E i \in j + 1 .. 4 : plan[i] = Up(plan[j].key)
  BY DEF Tidy
<1>1. CASE j = 1
  BY <1>1 DEF Down
<1>2. CASE j = 2
  BY <1>2 DEF Down
<1>3. CASE j \in {3, 4}
  BY <1>3 DEF Up
<1>4. QED  BY <1>1, <1>2, <1>3

(* So are those of a paste, which first puts its text on the clipboard.  *)
LEMMA TidyPaste ==
  ASSUME NEW plan, NEW t, NEW k, Len(plan) = 5, plan[1] = SetClipboard(t), plan[2] = Down("CTRL"),
         plan[3] = Down(k), plan[4] = Up(k), plan[5] = Up("CTRL")
  PROVE  Tidy(plan)
<1> SUFFICES ASSUME NEW j \in 1 .. 5
             PROVE  /\ plan[j].do # "char"
                    /\ plan[j].do = "down" => \E i \in j + 1 .. 5 : plan[i] = Up(plan[j].key)
  BY DEF Tidy
<1>1. CASE j = 2
  BY <1>1 DEF Down
<1>2. CASE j = 3
  BY <1>2 DEF Down
<1>3. CASE j \in {1, 4, 5}
  BY <1>3 DEF Up, SetClipboard
<1>4. QED  BY <1>1, <1>2, <1>3

(* A character typed with Shift is typed while nothing else is down. *)
LEMMA TidyShift ==
  ASSUME NEW plan, NEW t, Len(plan) = 3, plan[1] = Down("SHIFT"), plan[2] = Char(t), plan[3] = Up("SHIFT")
  PROVE  Tidy(plan)
<1> SUFFICES ASSUME NEW j \in 1 .. 3
             PROVE  /\ plan[j].do = "down" => \E i \in j + 1 .. 3 : plan[i] = Up(plan[j].key)
                    /\ plan[j].do = "char" => \A i \in 1 .. j : plan[i].do = "down" => plan[i].key = "SHIFT"
  BY DEF Tidy
<1>1. CASE j = 1
  BY <1>1 DEF Down
<1>2. CASE j = 2
  BY <1>2 DEF Down, Char
<1>3. CASE j = 3
  BY <1>3 DEF Up
<1>4. QED  BY <1>1, <1>2, <1>3

(* Each key or text gives an event of each kind. *)
LEMMA EventKinds ==
  ASSUME NEW k \in Words
  PROVE  /\ Down(k) \in Events /\ Up(k) \in Events
         /\ Char(k) \in Events /\ SetClipboard(k) \in Events
  BY DEF Down, Up, Char, SetClipboard, Events

(* A combination of Ctrl and a key: all four events, or none if a key is
   not known.                                                            *)
LEMMA HotkeyPlan ==
  ASSUME NEW k \in Words
  PROVE  LET plan == Hotkey(<<"CTRL", k>>)
         IN  /\ plan \in Seq(Events)
             /\ \/ plan = <<>> /\ ~({"CTRL", k} \subseteq Key)
                \/ /\ Len(plan) = 4 /\ plan[1] = Down("CTRL") /\ plan[2] = Down(k)
                   /\ plan[3] = Up(k) /\ plan[4] = Up("CTRL")
<1> DEFINE keys == <<"CTRL", k>>
           downs == [i \in DOMAIN keys |-> Down(keys[i])]
           ups == [i \in DOMAIN keys |-> Up(Reverse(keys)[i])]
<1>1. DOMAIN keys = 1 .. 2 /\ keys[1] = "CTRL" /\ keys[2] = k /\ Len(keys) = 2
  OBVIOUS
<1>2. Reverse(keys)[1] = k /\ Reverse(keys)[2] = "CTRL"
  <2>1. Reverse(keys) = [i \in 1 .. 2 |-> keys[(2 - i) + 1]]
    BY <1>1 DEF Reverse
  <2>2. QED  BY <1>1, <2>1
<1> HIDE DEF keys
<1>3. downs \in Seq(Events) /\ Len(downs) = 2 /\ downs[1] = Down("CTRL") /\ downs[2] = Down(k)
  <2>1. \A i \in 1 .. 2 : Down(keys[i]) \in Events
    BY <1>1, EventKinds, KnownWords
  <2>2. QED  BY <1>1, <2>1
<1>4. ups \in Seq(Events) /\ Len(ups) = 2 /\ ups[1] = Up(k) /\ ups[2] = Up("CTRL")
  <2>1. \A i \in 1 .. 2 : Up(Reverse(keys)[i]) \in Events
    BY <1>2, EventKinds, KnownWords
  <2>2. QED  BY <1>1, <1>2, <2>1
<1>5. PlanHotkey(keys) = downs \o ups
  BY DEF PlanHotkey
<1>6. Range(keys) = {"CTRL", k}
  BY <1>1 DEF Range
<1>7. (Hotkey(keys) = <<>> /\ ~({"CTRL", k} \subseteq Key)) \/ Hotkey(keys) = PlanHotkey(keys)
  BY <1>6 DEF Hotkey
<1> HIDE DEF downs, ups
<1>8. QED
  <2>1. CASE Hotkey(keys) = <<>> /\ ~({"CTRL", k} \subseteq Key)
    BY <2>1 DEF keys
  <2>2. CASE Hotkey(keys) = downs \o ups
    <3>1. downs \o ups \in Seq(Events) /\ Len(downs \o ups) = 4
          /\ (downs \o ups)[1] = downs[1] /\ (downs \o ups)[2] = downs[2]
          /\ (downs \o ups)[3] = ups[1] /\ (downs \o ups)[4] = ups[2]
      BY <1>3, <1>4, TwoAndTwo
    <3>2. QED  BY <1>3, <1>4, <2>2, <3>1 DEF keys
  <2>3. QED  BY <1>5, <1>7, <2>1, <2>2

(* The plans of the mouse leave no button down. *)
LEMMA MousePlans ==
  /\ Click("left") \in Seq(Events) /\ Tidy(Click("left"))
  /\ DoubleClick("left") \in Seq(Events) /\ Tidy(DoubleClick("left"))
  /\ Drag(2) \in Seq(Events) /\ Tidy(Drag(2)) /\ LeftOnly(Drag(2))
<1> USE KnownWords, MoveKind
<1>1. Down("left") \in Events /\ Up("left") \in Events
  BY EventKinds
<1>2. Click("left") \in Seq(Events) /\ Tidy(Click("left"))
  <2>1. LET plan == Click("left")
        IN  /\ plan \in Seq(Events) /\ Len(plan) = 3 /\ plan[1] = Move
            /\ plan[2] = Down("left") /\ plan[3] = Up("left")
    BY <1>1 DEF Click
  <2>2. QED  BY <2>1 DEF Tidy, Down, Up, Move
<1>3. DoubleClick("left") \in Seq(Events) /\ Tidy(DoubleClick("left"))
  <2>1. LET plan == DoubleClick("left")
        IN  /\ plan \in Seq(Events) /\ Len(plan) = 5 /\ plan[1] = Move
            /\ plan[2] = Down("left") /\ plan[3] = Up("left")
            /\ plan[4] = Down("left") /\ plan[5] = Up("left")
    <3> DEFINE second == <<Down("left"), Up("left")>>
    <3>1. Click("left") \in Seq(Events) /\ second \in Seq(Events)
          /\ Len(Click("left")) = 3 /\ Len(second) = 2
      BY <1>1 DEF Click
    <3>2. Click("left")[1] = Move /\ Click("left")[2] = Down("left") /\ Click("left")[3] = Up("left")
      BY DEF Click
    <3>3. QED  BY <3>1, <3>2, ConcatAt DEF DoubleClick
  <2> DEFINE plan == DoubleClick("left")
  <2>2. ASSUME NEW j \in 1 .. 5
        PROVE  /\ plan[j].do # "char"
               /\ plan[j].do = "down" => \E i \in j + 1 .. 5 : plan[i] = Up(plan[j].key)
    <3> HIDE DEF plan
    <3>1. CASE j = 2
      BY <2>1, <3>1 DEF Down, plan
    <3>2. CASE j = 4
      BY <2>1, <3>2 DEF Down, Move, plan
    <3>3. CASE j \in {1, 3, 5}
      BY <2>1, <3>3 DEF Up, Move, plan
    <3>4. QED  BY <3>1, <3>2, <3>3
  <2>3. QED  BY <2>1, <2>2 DEF Tidy
<1>4. Drag(2) \in Seq(Events) /\ Tidy(Drag(2)) /\ LeftOnly(Drag(2))
  <2>1. LET plan == Drag(2)
        IN  /\ plan \in Seq(Events) /\ Len(plan) = 5 /\ plan[1] = Move
            /\ plan[2] = Down("left") /\ plan[3] = Move
            /\ plan[4] = Move /\ plan[5] = Up("left")
    <3> DEFINE press == <<Move, Down("left")>>
               moves == [i \in 1 .. 2 |-> Move]
    <3>1. press \in Seq(Events) /\ moves \in Seq(Events) /\ Len(press) = 2 /\ Len(moves) = 2
          /\ moves[1] = Move /\ moves[2] = Move
      BY <1>1
    <3> HIDE DEF moves
    <3>2. press \o moves \in Seq(Events) /\ Len(press \o moves) = 4
          /\ (press \o moves)[1] = Move /\ (press \o moves)[2] = Down("left")
          /\ (press \o moves)[3] = Move /\ (press \o moves)[4] = Move
      BY <1>1, <3>1, TwoAndTwo
    <3>3. <<Up("left")>> \in Seq(Events)
      BY <1>1
    <3>4. (press \o moves \o <<Up("left")>>)[4 + 1] = Up("left")
      BY <3>2, <3>3, ConcatAt
    <3>5. QED  BY <3>2, <3>3, <3>4, ConcatAt DEF Drag, moves
  <2> DEFINE plan == Drag(2)
  <2>2. ASSUME NEW j \in 1 .. 5
        PROVE  /\ plan[j].do # "char"
               /\ plan[j].do = "down" => \E i \in j + 1 .. 5 : plan[i] = Up(plan[j].key)
    <3> HIDE DEF plan
    <3>1. CASE j = 2
      BY <2>1, <3>1 DEF Down, plan
    <3>2. CASE j = 4
      BY <2>1, <3>2 DEF Down, Move, plan
    <3>3. CASE j \in {1, 3, 5}
      BY <2>1, <3>3 DEF Up, Move, plan
    <3>4. QED  BY <3>1, <3>2, <3>3
  <2>3. ASSUME NEW j \in 1 .. 5, plan[j].do = "up"  PROVE plan[j].key = "left"
    <3>1. j = 5
      BY <2>1, <2>3 DEF Down, Move
    <3>2. QED  BY <2>1, <3>1 DEF Up
  <2>4. Tidy(plan)
    BY <2>1, <2>2 DEF Tidy
  <2>5. LeftOnly(plan)
    BY <2>1, <2>3 DEF LeftOnly
  <2>6. QED  BY <2>1, <2>4, <2>5
<1> QED BY <1>2, <1>3, <1>4

(* The plans of the keyboard leave no key down. *)
LEMMA KeyboardPlans ==
  ASSUME NEW k \in Words
  PROVE  /\ Press(k) \in Seq(Events) /\ Tidy(Press(k))
         /\ Hotkey(<<"CTRL", k>>) \in Seq(Events) /\ Tidy(Hotkey(<<"CTRL", k>>))
         /\ \A how \in {"keys", "shift", "paste"} :
              TypeText(k, how) \in Seq(Events) /\ Tidy(TypeText(k, how))
<1> USE EventKinds, KnownWords
<1>1. Press(k) \in Seq(Events) /\ Tidy(Press(k))
  <2>1. CASE k \in Key
    BY <2>1 DEF Press, Tidy, Down, Up
  <2>2. CASE k \notin Key
    BY <2>2 DEF Press, Tidy, Char
  <2>3. QED  BY <2>1, <2>2
<1>2. Hotkey(<<"CTRL", k>>) \in Seq(Events) /\ Tidy(Hotkey(<<"CTRL", k>>))
  <2>1. CASE Hotkey(<<"CTRL", k>>) = <<>>
    BY <2>1 DEF Tidy
  <2>2. CASE Hotkey(<<"CTRL", k>>) # <<>>
    BY <2>2, HotkeyPlan, TidyCombination
  <2>3. QED  BY <2>1, <2>2, HotkeyPlan
<1>3. TypeText(k, "keys") \in Seq(Events) /\ Tidy(TypeText(k, "keys"))
  BY DEF TypeText, TypeKeys, Tidy, Char
<1>4. TypeText(k, "shift") \in Seq(Events) /\ Tidy(TypeText(k, "shift"))
  <2>1. LET plan == TypeText(k, "shift")
        IN  plan \in Seq(Events) /\ Len(plan) = 3 /\ plan[1] = Down("SHIFT") /\ plan[2] = Char(k)
            /\ plan[3] = Up("SHIFT")
    BY DEF TypeText, TypeKeys
  <2>2. QED  BY <2>1, TidyShift
<1>5. TypeText(k, "paste") \in Seq(Events) /\ Tidy(TypeText(k, "paste"))
  <2> DEFINE plan == TypeText(k, "paste")
             combination == Hotkey(<<"CTRL", "V">>)
  <2>1. plan = <<SetClipboard(k)>> \o combination
    BY DEF TypeText, Paste
  <2>2. combination \in Seq(Events)
        /\ \/ combination = <<>>
           \/ /\ Len(combination) = 4 /\ combination[1] = Down("CTRL") /\ combination[2] = Down("V")
              /\ combination[3] = Up("V") /\ combination[4] = Up("CTRL")
    BY HotkeyPlan
  <2> HIDE DEF combination
  <2>3. /\ plan \in Seq(Events) /\ plan[1] = SetClipboard(k) /\ Len(plan) = 1 + Len(combination)
        /\ \A i \in 1 .. Len(combination) : plan[1 + i] = combination[i]
    <3>1. <<SetClipboard(k)>> \in Seq(Events) /\ Len(<<SetClipboard(k)>>) = 1
          /\ <<SetClipboard(k)>>[1] = SetClipboard(k) /\ 1 \in 1 .. 1
      OBVIOUS
    <3>2. LET joined == <<SetClipboard(k)>> \o combination
          IN  /\ joined \in Seq(Events) /\ joined[1] = SetClipboard(k)
              /\ Len(joined) = 1 + Len(combination)
              /\ \A i \in 1 .. Len(combination) : joined[1 + i] = combination[i]
      BY ONLY <2>2, <3>1, ConcatAt
    <3>3. QED  BY <2>1, <3>2
  <2> HIDE DEF plan
  <2>4. CASE combination = <<>>
    <3>1. Len(plan) = 1
      BY <2>3, <2>4
    <3>2. QED  BY <2>3, <3>1 DEF Tidy, SetClipboard, plan
  <2>5. CASE combination # <<>>
    <3>1. \A i \in 1 .. 4 : plan[1 + i] = combination[i]
      BY <2>2, <2>3, <2>5
    <3>2. Len(plan) = 5 /\ plan[1 + 1] = Down("CTRL") /\ plan[1 + 2] = Down("V") /\ plan[1 + 3] = Up("V")
          /\ plan[1 + 4] = Up("CTRL")
      BY <2>2, <2>3, <2>5, <3>1
    <3>3. QED  BY <2>3, <3>2, TidyPaste DEF plan
  <2>6. QED  BY <2>4, <2>5
<1> QED BY <1>1, <1>2, <1>3, <1>4, <1>5

(* Every plan that a step can lead to is tidy: hotkey, type_text, drag and
   the rest pair their presses with releases before the first is sent.   *)
LEMMA TidyPlans ==
  ASSUME NEW step, step.what \in Words, NEW plan \in EventsOf(step),
         step.do \in {"click", "open", "hotkey", "type", "press", "drag"}
  PROVE  /\ plan \in Seq(Events) /\ Tidy(plan)
         /\ step.do = "drag" => LeftOnly(plan)
<1>1. step.what \in Words
  OBVIOUS
<1>2. CASE step.do = "drag"
  <2>1. Stroke(2) = Drag(2)
    BY DEF Stroke
  <2>2. plan = Drag(2)
    BY <1>2, <2>1 DEF EventsOf
  <2>3. QED  BY <2>2, MousePlans
<1>3. CASE step.do \in {"click", "open"}
  BY <1>3, MousePlans DEF EventsOf
<1>4. CASE step.do = "press"
  BY <1>1, <1>4, KeyboardPlans DEF EventsOf
<1>5. CASE step.do = "hotkey"
  BY <1>1, <1>5, KeyboardPlans DEF EventsOf
<1>6. CASE step.do = "type"
  BY <1>1, <1>6, KeyboardPlans DEF EventsOf
<1> QED BY <1>2, <1>3, <1>4, <1>5, <1>6

-----------------------------------------------------------------------------
(* The steps of a workflow. *)
Steps == [do : {"none", "confirm", "verify", "click", "open", "hotkey", "type", "press", "drag"},
          on : {"must", "try", "else"}, what : Words, find : BOOLEAN]

(* A step of a form belongs to one of its fields. *)
LEMMA Position ==
  ASSUME NEW n \in Nat, NEW i \in 1 .. 4 * n
  PROVE  \E q \in 0 .. n - 1 : i \in {4 * q + 1, 4 * q + 2, 4 * q + 3, 4 * q + 4}
<1> DEFINE q == (i - 1) \div 4
<1>1. q \in 0 .. n - 1 /\ i - 1 - 4 * q \in 0 .. 3
  OBVIOUS
<1>2. QED  BY <1>1

(* Step and Find make steps. *)
LEMMA StepKinds ==
  ASSUME NEW do \in {"none", "confirm", "verify", "click", "open", "hotkey", "type", "press", "drag"},
         NEW on \in {"must", "try", "else"}, NEW what \in Words
  PROVE  Step(do, on, what) \in Steps /\ Find(do, on, what) \in Steps
  BY DEF Step, Find, Steps

(* fill_field: look for the input, click it, select what it holds, type. *)
LEMMA FieldSteps ==
  ASSUME NEW f \in Words
  PROVE  /\ FillField(f) \in Seq(Steps) /\ Len(FillField(f)) = 4
         /\ FillField(f)[1] = Find("none", "must", f) /\ FillField(f)[2] = Try("click", f)
         /\ FillField(f)[3] = Try("hotkey", "A") /\ FillField(f)[4] = Must("type", f)
<1>1. Find("none", "must", f) \in Steps /\ Try("click", f) \in Steps
      /\ Try("hotkey", "A") \in Steps /\ Must("type", f) \in Steps
  BY StepKinds, KnownWords DEF Try, Must
<1>2. QED  BY <1>1 DEF FillField

(* The form is filled field after field, four steps each. *)
LEMMA FormSteps ==
  /\ FillForm \in Seq(Steps) /\ Len(FillForm) = 4 * Len(Fields)
  /\ \A q \in 0 .. Len(Fields) - 1 :
       /\ Fields[q + 1] \in Words
       /\ FillForm[4 * q + 1] = Find("none", "must", Fields[q + 1])
       /\ FillForm[4 * q + 2] = Try("click", Fields[q + 1])
       /\ FillForm[4 * q + 3] = Try("hotkey", "A")
       /\ FillForm[4 * q + 4] = Must("type", Fields[q + 1])
<1> DEFINE n == Len(Fields)
<1>1. n \in Nat /\ DOMAIN Fields = 1 .. n
  BY WorkflowAssumption
<1>2. \A j \in 1 .. n : Fields[j] \in Words
  BY <1>1 DEF Words, Range
<1>3. ASSUME NEW i \in 1 .. 4 * n
      PROVE  FillField(Fields[1 + ((i - 1) \div 4)])[1 + ((i - 1) % 4)] \in Steps
  <2>1. 1 + ((i - 1) \div 4) \in 1 .. n /\ 1 + ((i - 1) % 4) \in 1 .. 4
    BY <1>1
  <2>2. QED  BY <1>2, <2>1, FieldSteps
<1>4. FillForm \in Seq(Steps) /\ Len(FillForm) = 4 * n
  BY <1>1, <1>3 DEF FillForm
<1>5. ASSUME NEW q \in 0 .. n - 1, NEW r \in 0 .. 3
      PROVE  FillForm[4 * q + (r + 1)] = FillField(Fields[q + 1])[r + 1]
  <2>1. 4 * q + (r + 1) \in 1 .. 4 * n /\ (4 * q + (r + 1) - 1) \div 4 = q /\ (4 * q + (r + 1) - 1) % 4 = r
    BY <1>1
  <2>2. QED  BY <2>1 DEF FillForm
<1>6. ASSUME NEW q \in 0 .. n - 1
      PROVE  /\ FillForm[4 * q + 1] = FillField(Fields[q + 1])[1]
             /\ FillForm[4 * q + 2] = FillField(Fields[q + 1])[2]
             /\ FillForm[4 * q + 3] = FillField(Fields[q + 1])[3]
             /\ FillForm[4 * q + 4] = FillField(Fields[q + 1])[4]
  <2>1. /\ FillForm[4 * q + (0 + 1)] = FillField(Fields[q + 1])[0 + 1]
        /\ FillForm[4 * q + (1 + 1)] = FillField(Fields[q + 1])[1 + 1]
        /\ FillForm[4 * q + (2 + 1)] = FillField(Fields[q + 1])[2 + 1]
        /\ FillForm[4 * q + (3 + 1)] = FillField(Fields[q + 1])[3 + 1]
    BY <1>5
  <2>2. QED  BY <2>1
<1>7. ASSUME NEW q \in 0 .. n - 1  PROVE Fields[q + 1] \in Words
  BY <1>1, <1>2
<1>8. QED  BY <1>1, <1>4, <1>6, <1>7, FieldSteps

(* The workflows whose texts are followed to where they arrive. *)
Texts == {"navigate", "submit", "form", "choose"}
(* How many texts workflow w has typed before its step i. *)
Typed(w, i) == IF w # "form" /\ i = 4 THEN 1 ELSE (i - 1) \div 4
(* A step that needs nothing of the keyboard before it. *)
Soft(step) == step.do \notin {"type", "hotkey"}

(* What holds of each step of such a workflow. *)
StepFits(step) ==
    /\ step.do \in {"none", "confirm", "click", "hotkey", "type", "press"}
    /\ step.do = "hotkey" => step.what \in {"A", "L"}
    /\ step.do = "press" => step.what = "ENTER"
    /\ step.do = "confirm" => step.what # "elsewhere" /\ step.on = "must"
    /\ step.on = "try" => ~step.find

(* How a step makes ready for the next: text and Ctrl+A go to the goal, and
   Ctrl+L to the page that was confirmed.                                *)
Leads(step, next, goal) ==
    /\ next.do = "type" \/ (next.do = "hotkey" /\ next.what = "A") =>
         /\ step.on # "else"
         /\ \/ step.do = "click" /\ step.what = goal
            \/ step.do = "hotkey" /\ step.what = "A"
            \/ step.do = "hotkey" /\ step.what = "L" /\ goal = "address"
    /\ next.do = "hotkey" /\ next.what = "L" => step.do = "confirm"

(* Step i of workflow w fits what the workflow is to type. *)
Fits(w, i) ==
    LET step == Scripts[w][i]
        next == Scripts[w][i + 1]
        texts == Meant[w]
        c == Typed(w, i)
    IN  /\ StepFits(step)
        /\ c \in 0 .. Len(texts)
        /\ step.do = "type" => /\ i < Len(Scripts[w]) /\ step.on = "must"
                               /\ c < Len(texts) /\ texts[c + 1][1] = step.what
        /\ i < Len(Scripts[w]) => /\ Typed(w, i + 1) = IF step.do = "type" THEN c + 1 ELSE c
                                  /\ Leads(step, next, texts[c + 1][2])
        /\ i = Len(Scripts[w]) \/ step.on = "else" => c = Len(texts)

(* The four steps of navigate. *)
LEMMA NavigateSteps ==
  /\ Navigate \in Seq(Steps) /\ Len(Navigate) = 4
  /\ Navigate[1] = Must("confirm", "page") /\ Navigate[2] = Try("hotkey", "L")
  /\ Navigate[3] = Must("type", "url") /\ Navigate[4] = Must("press", "ENTER")
<1>1. Must("confirm", "page") \in Steps /\ Try("hotkey", "L") \in Steps
      /\ Must("type", "url") \in Steps /\ Enter \in Steps
  BY StepKinds, KnownWords DEF Try, Must, Enter
<1>2. QED  BY <1>1 DEF Navigate, Enter

(* The four steps of choose_file. *)
LEMMA ChooseSteps ==
  /\ ChooseFile \in Seq(Steps) /\ Len(ChooseFile) = 4
  /\ ChooseFile[1] = Find("click", "must", "name") /\ ChooseFile[2] = Try("hotkey", "A")
  /\ ChooseFile[3] = Must("type", "path") /\ ChooseFile[4] = Must("press", "ENTER")
<1>1. Find("click", "must", "name") \in Steps /\ Try("hotkey", "A") \in Steps
      /\ Must("type", "path") \in Steps /\ Enter \in Steps
  BY StepKinds, KnownWords DEF Try, Must, Enter
<1>2. QED  BY <1>1 DEF ChooseFile, Enter

(* A form that is open: its fields, then Enter. *)
LEMMA OpenFormSteps ==
  /\ SubmitOpenForm \in Seq(Steps) /\ Len(SubmitOpenForm) = 4 * Len(Fields) + 1
  /\ \A i \in 1 .. 4 * Len(Fields) : SubmitOpenForm[i] = FillForm[i]
  /\ SubmitOpenForm[4 * Len(Fields) + 1] = Must("press", "ENTER")
<1> DEFINE ends == <<Enter>>
           n == 4 * Len(Fields)
<1>1. ends \in Seq(Steps) /\ Len(ends) = 1 /\ ends[1] = Must("press", "ENTER")
  BY StepKinds, KnownWords DEF Must, Enter
<1>2. FillForm \in Seq(Steps) /\ Len(FillForm) = n /\ n \in Nat
  BY FormSteps, WorkflowAssumption
<1>3. SubmitOpenForm = FillForm \o ends
  BY DEF SubmitOpenForm
<1> HIDE DEF ends
<1>4. /\ SubmitOpenForm \in Seq(Steps) /\ Len(SubmitOpenForm) = Len(FillForm) + Len(ends)
      /\ \A i \in 1 .. Len(FillForm) : SubmitOpenForm[i] = FillForm[i]
      /\ \A i \in 1 .. Len(ends) : SubmitOpenForm[Len(FillForm) + i] = ends[i]
  <2>1. FillForm \in Seq(Steps) /\ ends \in Seq(Steps)
    BY <1>1, <1>2
  <2>2. QED  BY ONLY ConcatAt, <1>3, <2>1
<1>5. 1 \in 1 .. Len(ends)
  BY <1>1
<1>6. SubmitOpenForm[Len(FillForm) + 1] = ends[1]
  BY <1>4, <1>5
<1>7. QED  BY <1>1, <1>2, <1>4, <1>6 DEF n

(* A form on a page: navigate, fill it, press its button or Enter. *)
LEMMA SubmitSteps ==
  LET n == 4 * Len(Fields)
  IN  /\ SubmitForm \in Seq(Steps) /\ Len(SubmitForm) = 4 + n + 3
      /\ \A i \in 1 .. 4 : SubmitForm[i] = Navigate[i]
      /\ \A i \in 1 .. n : SubmitForm[4 + i] = FillForm[i]
      /\ SubmitForm[4 + n + 1] = Find("click", "else", "page")
      /\ SubmitForm[4 + n + 2] = Find("click", "else", "page")
      /\ SubmitForm[4 + n + 3] = Must("press", "ENTER")
<1> DEFINE n == 4 * Len(Fields)
           ends == <<ClickControl("else"), ClickControl("else"), Enter>>
<1>1. Find("click", "else", "page") \in Steps /\ Must("press", "ENTER") \in Steps
  BY StepKinds, KnownWords DEF Must
<1>2. /\ ends \in Seq(Steps) /\ Len(ends) = 3
      /\ ends[1] = Find("click", "else", "page") /\ ends[2] = Find("click", "else", "page")
      /\ ends[3] = Must("press", "ENTER")
  BY <1>1 DEF ClickControl, Enter
<1> HIDE DEF ends
<1>3. Navigate \in Seq(Steps) /\ Len(Navigate) = 4 /\ FillForm \in Seq(Steps) /\ Len(FillForm) = n
      /\ n \in Nat
  BY NavigateSteps, FormSteps, WorkflowAssumption
<1>4. ends \in Seq(Steps) /\ Navigate \in Seq(Steps) /\ FillForm \in Seq(Steps)
  BY <1>2, <1>3
<1> DEFINE start == Navigate \o FillForm
<1>5. /\ start \in Seq(Steps) /\ Len(start) = Len(Navigate) + Len(FillForm)
      /\ \A i \in 1 .. Len(Navigate) : start[i] = Navigate[i]
      /\ \A i \in 1 .. Len(FillForm) : start[Len(Navigate) + i] = FillForm[i]
  BY ONLY ConcatAt, <1>4
<1>6. SubmitForm = start \o ends
  BY DEF SubmitForm, ends
<1> HIDE DEF start, n
<1>7. /\ SubmitForm \in Seq(Steps) /\ Len(SubmitForm) = Len(start) + Len(ends)
      /\ \A i \in 1 .. Len(start) : SubmitForm[i] = start[i]
      /\ \A i \in 1 .. Len(ends) : SubmitForm[Len(start) + i] = ends[i]
  <2>1. start \in Seq(Steps)
    BY <1>5
  <2>2. QED  BY ONLY ConcatAt, <1>4, <1>6, <2>1
<1>8. 1 \in 1 .. Len(ends) /\ 2 \in 1 .. Len(ends) /\ 3 \in 1 .. Len(ends)
  BY <1>2
<1>9. /\ SubmitForm[Len(start) + 1] = ends[1] /\ SubmitForm[Len(start) + 2] = ends[2]
      /\ SubmitForm[Len(start) + 3] = ends[3]
  BY <1>7, <1>8
<1>10. Len(start) = 4 + n
  BY <1>3, <1>5
<1>11. (\A i \in 1 .. 4 : i \in 1 .. 4 + n) /\ (\A i \in 1 .. n : 4 + i \in 1 .. 4 + n)
  BY <1>3
<1>12. \A i \in 1 .. 4 : SubmitForm[i] = Navigate[i]
  BY <1>3, <1>5, <1>7, <1>10, <1>11
<1>13. \A i \in 1 .. n : SubmitForm[4 + i] = FillForm[i]
  BY <1>3, <1>5, <1>7, <1>10, <1>11
<1>14. Len(SubmitForm) = 4 + n + 3
  BY <1>2, <1>7, <1>10
<1>15. QED  BY <1>2, <1>7, <1>9, <1>10, <1>12, <1>13, <1>14 DEF n

(* Creating a file ends early only with a verification, and its last step is
   one that must succeed.                                                *)
LEMMA CreateSteps ==
  /\ CreateFile \in Seq(Steps) /\ Len(CreateFile) = 14
  /\ \A i \in 1 .. 14 : CreateFile[i].on = "else" \/ i = 14 =>
       CreateFile[i].do = "verify" /\ CreateFile[i].what = "content" /\ ~CreateFile[i].find
  /\ CreateFile[14].on = "must"
<1>1. /\ Must("click", "desktop") \in Steps /\ Find("click", "try", "menu") \in Steps
      /\ Find("click", "must", "menu") \in Steps /\ Try("type", "filename") \in Steps
      /\ Try("press", "ENTER") \in Steps /\ Find("open", "must", "editor") \in Steps
      /\ Must("type", "content") \in Steps /\ Try("hotkey", "S") \in Steps
      /\ Step("verify", "else", "content") \in Steps /\ Try("hotkey", "A") \in Steps
      /\ Try("type", "content") \in Steps /\ Must("verify", "content") \in Steps
  BY StepKinds, KnownWords DEF Try, Must
<1>2. CreateFile \in Seq(Steps) /\ Len(CreateFile) = 14
  BY <1>1 DEF CreateFile
<1>3. \A i \in 1 .. 14 : i \notin {10, 14} => CreateFile[i].on # "else"
  BY DEF CreateFile, Must, Try, Find, Step
<1>4. CreateFile[10] = Step("verify", "else", "content") /\ CreateFile[14] = Must("verify", "content")
  BY DEF CreateFile
<1>5. QED  BY <1>2, <1>3, <1>4 DEF Must, Step

(* Every script is a list of steps, and none is empty. *)
LEMMA ScriptSteps ==
  /\ DOMAIN Scripts = {"navigate", "submit", "form", "choose", "create", "drag", "unknown"}
  /\ Scripts["navigate"] = Navigate /\ Scripts["submit"] = SubmitForm /\ Scripts["form"] = SubmitOpenForm
  /\ Scripts["choose"] = ChooseFile /\ Scripts["create"] = CreateFile
  /\ \A w \in DOMAIN Scripts : Scripts[w] \in Seq(Steps) /\ Len(Scripts[w]) > 0
<1>1. DOMAIN Scripts = {"navigate", "submit", "form", "choose", "create", "drag", "unknown"}
  BY DEF Scripts
<1>2. Scripts["drag"] = <<Must("drag", "none")>> /\ Scripts["unknown"] = <<Must("hotkey", "HYPER")>>
  BY DEF Scripts, DragDrop, UnknownKey
<1>3. Must("drag", "none") \in Steps /\ Must("hotkey", "HYPER") \in Steps
  BY StepKinds, KnownWords DEF Must
<1>4. \A w \in {"drag", "unknown"} : Scripts[w] \in Seq(Steps) /\ Len(Scripts[w]) > 0
  <2>1. <<Must("drag", "none")>> \in Seq(Steps) /\ Len(<<Must("drag", "none")>>) > 0
    BY <1>3
  <2>2. <<Must("hotkey", "HYPER")>> \in Seq(Steps) /\ Len(<<Must("hotkey", "HYPER")>>) > 0
    BY <1>3
  <2>3. QED  BY <1>2, <2>1, <2>2
<1>5. /\ Scripts["navigate"] = Navigate /\ Scripts["submit"] = SubmitForm
      /\ Scripts["form"] = SubmitOpenForm /\ Scripts["choose"] = ChooseFile /\ Scripts["create"] = CreateFile
  BY DEF Scripts
<1>6. \A w \in {"navigate", "submit", "form", "choose", "create"} :
        Scripts[w] \in Seq(Steps) /\ Len(Scripts[w]) > 0
  <2>1. 4 + 4 * Len(Fields) + 3 > 0 /\ 4 * Len(Fields) + 1 > 0
    BY WorkflowAssumption
  <2>2. SubmitForm \in Seq(Steps) /\ Len(SubmitForm) > 0
    BY <2>1, SubmitSteps
  <2>3. SubmitOpenForm \in Seq(Steps) /\ Len(SubmitOpenForm) > 0
    BY <2>1, OpenFormSteps
  <2>4. Navigate \in Seq(Steps) /\ Len(Navigate) > 0 /\ ChooseFile \in Seq(Steps) /\ Len(ChooseFile) > 0
        /\ CreateFile \in Seq(Steps) /\ Len(CreateFile) > 0
    BY NavigateSteps, ChooseSteps, CreateSteps
  <2>5. QED  BY <1>5, <2>2, <2>3, <2>4
<1>7. QED  BY <1>1, <1>4, <1>5, <1>6

(* The texts each workflow means to type. *)
LEMMA MeantTexts ==
  /\ DOMAIN Meant = Texts
  /\ Meant["navigate"] = <<<<"url", "address">>>> /\ Meant["choose"] = <<<<"path", "name">>>>
  /\ Len(Meant["form"]) = Len(Fields) /\ Len(Meant["submit"]) = Len(Fields) + 1
  /\ \A w \in Texts : Meant[w] \in Seq(Words \X Words)
  /\ Meant["submit"][1] = <<"url", "address">>
  /\ \A q \in 0 .. Len(Fields) - 1 : /\ Meant["form"][q + 1] = <<Fields[q + 1], Fields[q + 1]>>
                                    /\ Meant["submit"][q + 2] = <<Fields[q + 1], Fields[q + 1]>>
<1> DEFINE n == Len(Fields)
           first == <<<<"url", "address">>>>
           rest == [i \in DOMAIN Fields |-> <<Fields[i], Fields[i]>>]
<1>1. n \in Nat /\ DOMAIN Fields = 1 .. n
  BY WorkflowAssumption
<1>2. \A j \in 1 .. n : Fields[j] \in Words
  BY <1>1 DEF Words, Range
<1>3. /\ DOMAIN Meant = Texts
      /\ Meant["navigate"] = <<<<"url", "address">>>> /\ Meant["choose"] = <<<<"path", "name">>>>
      /\ Meant["form"] = rest /\ Meant["submit"] = first \o rest
  BY DEF Meant, Texts
<1>4. rest \in Seq(Words \X Words) /\ Len(rest) = n /\ \A j \in 1 .. n : rest[j] = <<Fields[j], Fields[j]>>
  BY <1>1, <1>2
<1>5. first \in Seq(Words \X Words) /\ Len(first) = 1 /\ first[1] = <<"url", "address">>
  BY KnownWords
<1>6. <<<<"path", "name">>>> \in Seq(Words \X Words)
  BY KnownWords
<1> HIDE DEF rest, first
<1>7. LET both == Meant["submit"]
      IN  /\ both \in Seq(Words \X Words) /\ Len(both) = Len(first) + Len(rest)
          /\ \A i \in 1 .. Len(first) : both[i] = first[i]
          /\ \A i \in 1 .. Len(rest) : both[Len(first) + i] = rest[i]
  <2>1. first \in Seq(Words \X Words) /\ rest \in Seq(Words \X Words) /\ Meant["submit"] = first \o rest
    BY <1>3, <1>4, <1>5
  <2>2. QED  BY ONLY ConcatAt, <2>1
<1>8. Meant["submit"][1] = <<"url", "address">>
  BY <1>5, <1>7
<1>9. ASSUME NEW q \in 0 .. n - 1
      PROVE  /\ Meant["form"][q + 1] = <<Fields[q + 1], Fields[q + 1]>>
             /\ Meant["submit"][q + 2] = <<Fields[q + 1], Fields[q + 1]>>
  <2>1. q + 1 \in 1 .. n /\ Len(first) + (q + 1) = q + 2
    BY <1>1, <1>5
  <2>2. QED  BY <1>3, <1>4, <1>7, <2>1
<1>10. \A w \in Texts : Meant[w] \in Seq(Words \X Words)
  BY <1>3, <1>4, <1>5, <1>6, <1>7 DEF Texts, first
<1>11. Len(Meant["form"]) = n /\ Len(Meant["submit"]) = n + 1
  BY <1>1, <1>3, <1>4, <1>5, <1>7
<1>12. QED  BY <1>3, <1>8, <1>9, <1>10, <1>11

(* Navigate confirms the page before it presses Ctrl+L and types the address.*)
LEMMA NavigateFits == \A i \in 1 .. 4 : Fits("navigate", i)
<1>1. /\ Scripts["navigate"] = Navigate /\ Len(Scripts["navigate"]) = 4
      /\ Len(Meant["navigate"]) = 1 /\ Meant["navigate"][1][1] = "url" /\ Meant["navigate"][1][2] = "address"
  BY ScriptSteps, NavigateSteps, MeantTexts
<1>2. Fits("navigate", 1)
  BY <1>1, NavigateSteps DEF Fits, StepFits, Leads, Typed, Must, Try, Step
<1>3. Fits("navigate", 2)
  BY <1>1, NavigateSteps DEF Fits, StepFits, Leads, Typed, Must, Try, Step
<1>4. Fits("navigate", 3)
  BY <1>1, NavigateSteps DEF Fits, StepFits, Leads, Typed, Must, Try, Step
<1>5. Fits("navigate", 4)
  BY <1>1, NavigateSteps DEF Fits, StepFits, Leads, Typed, Must, Try, Step
<1>6. QED  BY <1>2, <1>3, <1>4, <1>5

(* choose_file clicks the name before it types the path. *)
LEMMA ChooseFits == \A i \in 1 .. 4 : Fits("choose", i)
<1>1. /\ Scripts["choose"] = ChooseFile /\ Len(Scripts["choose"]) = 4
      /\ Len(Meant["choose"]) = 1 /\ Meant["choose"][1][1] = "path" /\ Meant["choose"][1][2] = "name"
  BY ScriptSteps, ChooseSteps, MeantTexts
<1>2. Fits("choose", 1)
  BY <1>1, ChooseSteps DEF Fits, StepFits, Leads, Typed, Must, Try, Step, Find
<1>3. Fits("choose", 2)
  BY <1>1, ChooseSteps DEF Fits, StepFits, Leads, Typed, Must, Try, Step, Find
<1>4. Fits("choose", 3)
  BY <1>1, ChooseSteps DEF Fits, StepFits, Leads, Typed, Must, Try, Step, Find
<1>5. Fits("choose", 4)
  BY <1>1, ChooseSteps DEF Fits, StepFits, Leads, Typed, Must, Try, Step, Find
<1>6. QED  BY <1>2, <1>3, <1>4, <1>5

(* The four steps of a field, wherever in a script they are.              *)
LEMMA FieldFits ==
  ASSUME NEW w, NEW b \in Nat, NEW c \in Nat, NEW f,
         c < Len(Meant[w]), Len(Meant[w]) \in Nat, b + 4 < Len(Scripts[w]), Len(Scripts[w]) \in Nat,
         Meant[w][c + 1] = <<f, f>>,
         Scripts[w][b + 1] = Find("none", "must", f), Scripts[w][b + 2] = Try("click", f),
         Scripts[w][b + 3] = Try("hotkey", "A"), Scripts[w][b + 4] = Must("type", f),
         Soft(Scripts[w][b + 5]),
         \A r \in 1 .. 4 : Typed(w, b + r) = c,
         Typed(w, b + 5) = c + 1
  PROVE  Fits(w, b + 1) /\ Fits(w, b + 2) /\ Fits(w, b + 3) /\ Fits(w, b + 4)
<1>1. /\ Typed(w, b + 1) = c /\ Typed(w, b + 2) = c /\ Typed(w, b + 3) = c /\ Typed(w, b + 4) = c
      /\ Typed(w, b + 1 + 1) = c /\ Scripts[w][b + 1 + 1] = Try("click", f)
      /\ b + 1 + 1 = b + 2 /\ b + 2 + 1 = b + 3 /\ b + 3 + 1 = b + 4 /\ b + 4 + 1 = b + 5
  OBVIOUS
<1>2. /\ b \in Nat /\ c \in Nat /\ c < Len(Meant[w]) /\ Len(Meant[w]) \in Nat
      /\ b + 4 < Len(Scripts[w]) /\ Len(Scripts[w]) \in Nat
  OBVIOUS
<1>3. /\ c \in 0 .. Len(Meant[w])
      /\ b + 1 < Len(Scripts[w]) /\ b + 1 # Len(Scripts[w])
      /\ b + 2 < Len(Scripts[w]) /\ b + 2 # Len(Scripts[w])
      /\ b + 3 < Len(Scripts[w]) /\ b + 3 # Len(Scripts[w])
      /\ b + 4 < Len(Scripts[w]) /\ b + 4 # Len(Scripts[w])
  BY ONLY <1>2
<1>4. Fits(w, b + 1)
  <2>1. StepFits(Scripts[w][b + 1]) /\ Scripts[w][b + 1].do = "none" /\ Scripts[w][b + 1].on = "must"
    BY DEF StepFits, Find
  <2>2. \A goal : Leads(Scripts[w][b + 1], Scripts[w][b + 1 + 1], goal)
    BY <1>1 DEF Leads, Try, Step
  <2>3. QED  BY <1>1, <1>3, <2>1, <2>2 DEF Fits
<1>5. Fits(w, b + 2)
  <2>1. /\ StepFits(Scripts[w][b + 2])
        /\ Scripts[w][b + 2].do = "click" /\ Scripts[w][b + 2].on = "try"
    BY DEF StepFits, Try, Step
  <2>2. Scripts[w][b + 2 + 1] = Try("hotkey", "A") /\ Typed(w, b + 2 + 1) = c
    BY <1>1
  <2>3. Leads(Scripts[w][b + 2], Scripts[w][b + 2 + 1], f)
    BY <2>2 DEF Leads, Must, Try, Step
  <2>4. Meant[w][c + 1][2] = f
    OBVIOUS
  <2>5. QED  BY <1>1, <1>3, <2>1, <2>2, <2>3, <2>4 DEF Fits
<1>6. Fits(w, b + 3)
  <2>1. /\ StepFits(Scripts[w][b + 3])
        /\ Scripts[w][b + 3].do = "hotkey" /\ Scripts[w][b + 3].on = "try"
    BY DEF StepFits, Try, Step
  <2>2. Scripts[w][b + 3 + 1] = Must("type", f) /\ Typed(w, b + 3 + 1) = c
    BY <1>1
  <2>3. Leads(Scripts[w][b + 3], Scripts[w][b + 3 + 1], f)
    BY <2>2 DEF Leads, Must, Try, Step
  <2>4. Meant[w][c + 1][2] = f
    OBVIOUS
  <2>5. QED  BY <1>1, <1>3, <2>1, <2>2, <2>3, <2>4 DEF Fits
<1>7. Fits(w, b + 4)
  <2>1. Typed(w, b + 4 + 1) = c + 1 /\ Soft(Scripts[w][b + 4 + 1])
    BY <1>1
  <2>2. StepFits(Scripts[w][b + 4]) /\ Scripts[w][b + 4].do = "type" /\ Scripts[w][b + 4].on = "must"
        /\ Scripts[w][b + 4].what = f
    BY DEF StepFits, Must, Step
  <2>3. \A goal : Leads(Scripts[w][b + 4], Scripts[w][b + 4 + 1], goal)
    BY <2>1 DEF Leads, Soft
  <2>4. Meant[w][c + 1][1] = f
    OBVIOUS
  <2>5. QED  BY <1>1, <1>2, <1>3, <2>1, <2>2, <2>3, <2>4 DEF Fits
<1>8. QED  BY <1>4, <1>5, <1>6, <1>7

(* The steps of an open form fit its texts. *)
LEMMA OpenFormFits == \A i \in 1 .. Len(Scripts["form"]) : Fits("form", i)
<1> DEFINE n == Len(Fields)
           script == Scripts["form"]
<1>1. n \in Nat
  BY WorkflowAssumption
<1>2. /\ Len(script) = 4 * n + 1 /\ script[4 * n + 1] = Must("press", "ENTER")
      /\ \A i \in 1 .. 4 * n : script[i] = FillForm[i]
      /\ Len(Meant["form"]) = n
  BY ScriptSteps, OpenFormSteps, MeantTexts
<1>3. ASSUME NEW q \in 0 .. n - 1
      PROVE  Fits("form", 4 * q + 1) /\ Fits("form", 4 * q + 2) /\ Fits("form", 4 * q + 3) /\ Fits("form", 4 * q + 4)
  <2> DEFINE f == Fields[q + 1]
  <2>1. /\ script[4 * q + 1] = Find("none", "must", f) /\ script[4 * q + 2] = Try("click", f)
        /\ script[4 * q + 3] = Try("hotkey", "A") /\ script[4 * q + 4] = Must("type", f)
    <3>1. 4 * q + 1 \in 1 .. 4 * n /\ 4 * q + 2 \in 1 .. 4 * n /\ 4 * q + 3 \in 1 .. 4 * n
          /\ 4 * q + 4 \in 1 .. 4 * n
      BY <1>1
    <3>2. QED  BY <1>2, <3>1, FormSteps
  <2>2. Soft(script[4 * q + 5])
    <3>1. CASE q = n - 1
      BY <1>1, <1>2, <3>1 DEF Soft, Must, Step
    <3>2. CASE q + 1 \in 0 .. n - 1
      <4>1. script[4 * (q + 1) + 1] = Find("none", "must", Fields[q + 1 + 1])
        <5>1. 4 * (q + 1) + 1 \in 1 .. 4 * n
          BY <1>1, <3>2
        <5>2. FillForm[4 * (q + 1) + 1] = Find("none", "must", Fields[q + 1 + 1])
          BY <3>2, FormSteps
        <5>3. QED  BY <1>2, <5>1, <5>2
      <4>2. 4 * (q + 1) + 1 = 4 * q + 5
        OBVIOUS
      <4>3. QED  BY <4>1, <4>2 DEF Soft, Find
    <3>3. QED  BY <1>1, <3>1, <3>2
  <2>3. (\A r \in 1 .. 4 : Typed("form", 4 * q + r) = q) /\ Typed("form", 4 * q + 5) = q + 1
    BY DEF Typed
  <2>4. Meant["form"][q + 1] = <<f, f>>
    BY MeantTexts
  <2>5. q \in Nat /\ 4 * q \in Nat /\ q < Len(Meant["form"]) /\ Len(Meant["form"]) \in Nat
        /\ 4 * q + 4 < Len(script) /\ Len(script) \in Nat
    BY <1>1, <1>2
  <2>6. QED  BY ONLY <2>1, <2>2, <2>3, <2>4, <2>5, FieldFits
<1>4. Fits("form", 4 * n + 1)
  BY <1>1, <1>2 DEF Fits, StepFits, Typed, Must, Step
<1>5. ASSUME NEW i \in 1 .. 4 * n  PROVE Fits("form", i)
  <2>1. PICK q \in 0 .. n - 1 : i \in {4 * q + 1, 4 * q + 2, 4 * q + 3, 4 * q + 4}
    BY <1>1, Position
  <2>2. QED  BY <1>3, <2>1
<1>6. QED  BY <1>1, <1>2, <1>4, <1>5

(* The steps of a form on a page fit the address and its texts. *)
LEMMA SubmitFits == \A i \in 1 .. Len(Scripts["submit"]) : Fits("submit", i)
<1> DEFINE n == Len(Fields)
           script == Scripts["submit"]
           texts == Meant["submit"]
<1>1. n \in Nat
  BY WorkflowAssumption
<1>2. /\ Len(script) = 4 + 4 * n + 3
      /\ \A i \in 1 .. 4 : script[i] = Navigate[i]
      /\ \A i \in 1 .. 4 * n : script[4 + i] = FillForm[i]
      /\ script[4 + 4 * n + 1] = Find("click", "else", "page")
      /\ script[4 + 4 * n + 2] = Find("click", "else", "page")
      /\ script[4 + 4 * n + 3] = Must("press", "ENTER")
  BY ScriptSteps, SubmitSteps
<1>3. Len(texts) = n + 1 /\ texts[1][1] = "url" /\ texts[1][2] = "address"
  BY MeantTexts
<1>4. ASSUME NEW q \in 0 .. n
      PROVE  Soft(script[4 + 4 * q + 1])
  <2>1. CASE q = n
    BY <1>2, <2>1 DEF Soft, Find
  <2>2. CASE q \in 0 .. n - 1
    <3>1. 4 * q + 1 \in 1 .. 4 * n /\ 4 + (4 * q + 1) = 4 + 4 * q + 1
      BY <1>1, <2>2
    <3>2. script[4 + (4 * q + 1)] = Find("none", "must", Fields[q + 1])
      BY <1>2, <2>2, <3>1, FormSteps
    <3>3. QED  BY <3>1, <3>2 DEF Soft, Find
  <2>3. QED  BY <1>1, <2>1, <2>2
<1>5. Fits("submit", 1) /\ Fits("submit", 2) /\ Fits("submit", 3) /\ Fits("submit", 4)
  <2>1. /\ script[1] = Must("confirm", "page") /\ script[2] = Try("hotkey", "L")
        /\ script[3] = Must("type", "url") /\ script[4] = Must("press", "ENTER")
    BY <1>2, NavigateSteps
  <2>2. Soft(script[5])
    <3>1. Soft(script[4 + 4 * 0 + 1])
      BY <1>1, <1>4
    <3>2. QED  BY <3>1
  <2>3. /\ 4 < Len(script) /\ 3 < Len(script) /\ 2 < Len(script) /\ 2 # Len(script) /\ 3 # Len(script) /\ 4 # Len(script)
        /\ Len(texts) > 0 /\ Len(texts) \in Nat /\ 0 \in 0 .. Len(texts) /\ 1 \in 0 .. Len(texts)
    <3>1. Len(script) = 4 + 4 * n + 3
      BY <1>2
    <3>2. Len(texts) = n + 1
      BY <1>3
    <3>3. QED  BY ONLY <1>1, <3>1, <3>2
  <2> HIDE DEF script, texts
  <2>4. /\ Typed("submit", 1) = 0 /\ Typed("submit", 2) = 0 /\ Typed("submit", 3) = 0
        /\ Typed("submit", 4) = 1 /\ Typed("submit", 5) = 1
    BY DEF Typed
  <2>5. Fits("submit", 1)
    BY <1>3, <2>1, <2>3, <2>4 DEF Fits, StepFits, Leads, Must, Try, Step, script, texts
  <2>6. Fits("submit", 2)
    <3>1. StepFits(script[2]) /\ script[2].do = "hotkey" /\ script[2].on = "try"
      BY <2>1 DEF StepFits, Try, Step
    <3>2. Leads(script[2], script[3], "address")
      BY <2>1 DEF Leads, Must, Try, Step
    <3>3. 2 < Len(script) /\ 2 # Len(script)
      BY <2>3
    <3>4. QED  BY <1>3, <2>3, <2>4, <3>1, <3>2, <3>3 DEF Fits, script, texts
  <2>7. Fits("submit", 3)
    <3>1. StepFits(script[3]) /\ script[3].do = "type" /\ script[3].on = "must" /\ script[3].what = "url"
      BY <2>1 DEF StepFits, Must, Step
    <3>2. \A goal : Leads(script[3], script[4], goal)
      BY <2>1 DEF Leads, Must, Step
    <3>3. QED  BY <1>3, <2>3, <2>4, <3>1, <3>2 DEF Fits, script, texts
  <2>8. Fits("submit", 4)
    <3>1. StepFits(script[4]) /\ script[4].do = "press" /\ script[4].on = "must"
      BY <2>1 DEF StepFits, Must, Step
    <3>2. \A goal : Leads(script[4], script[5], goal)
      BY <2>2 DEF Leads, Soft
    <3>3. QED  BY <2>3, <2>4, <3>1, <3>2 DEF Fits, script, texts
  <2>9. QED  BY <2>5, <2>6, <2>7, <2>8
<1>6. ASSUME NEW q \in 0 .. n - 1
      PROVE  /\ Fits("submit", 4 + 4 * q + 1) /\ Fits("submit", 4 + 4 * q + 2)
             /\ Fits("submit", 4 + 4 * q + 3) /\ Fits("submit", 4 + 4 * q + 4)
  <2> DEFINE f == Fields[q + 1]
             b == 4 + 4 * q
  <2>1. /\ script[b + 1] = Find("none", "must", f) /\ script[b + 2] = Try("click", f)
        /\ script[b + 3] = Try("hotkey", "A") /\ script[b + 4] = Must("type", f)
    <3>1. 4 * q + 1 \in 1 .. 4 * n /\ 4 * q + 2 \in 1 .. 4 * n /\ 4 * q + 3 \in 1 .. 4 * n
          /\ 4 * q + 4 \in 1 .. 4 * n
      BY <1>1
    <3>2. /\ b + 1 = 4 + (4 * q + 1) /\ b + 2 = 4 + (4 * q + 2) /\ b + 3 = 4 + (4 * q + 3)
          /\ b + 4 = 4 + (4 * q + 4)
      OBVIOUS
    <3>3. QED  BY <1>2, <3>1, <3>2, FormSteps
  <2>2. Soft(script[b + 5])
    <3>1. Soft(script[4 + 4 * (q + 1) + 1]) /\ 4 + 4 * (q + 1) + 1 = b + 5
      BY <1>1, <1>4
    <3>2. QED  BY <3>1
  <2>3. (\A r \in 1 .. 4 : Typed("submit", b + r) = q + 1) /\ Typed("submit", b + 5) = q + 2
    BY DEF Typed
  <2>4. texts[q + 1 + 1] = <<f, f>>
    BY MeantTexts
  <2>5. b \in Nat /\ q + 1 \in Nat /\ q + 1 < Len(texts) /\ Len(texts) \in Nat
        /\ b + 4 < Len(script) /\ Len(script) \in Nat /\ q + 2 = q + 1 + 1
    <3>1. q \in 0 .. n - 1 /\ b = 4 + 4 * q /\ Len(script) = 4 + 4 * n + 3
      BY <1>2
    <3>2. Len(texts) = n + 1
      BY <1>3
    <3>3. QED  BY ONLY <1>1, <3>1, <3>2
  <2>6. QED  BY ONLY <2>1, <2>2, <2>3, <2>4, <2>5, FieldFits
<1>7. Fits("submit", 4 + 4 * n + 1) /\ Fits("submit", 4 + 4 * n + 2) /\ Fits("submit", 4 + 4 * n + 3)
  <2>1. /\ Typed("submit", 4 + 4 * n + 1) = n + 1 /\ Typed("submit", 4 + 4 * n + 2) = n + 1
        /\ Typed("submit", 4 + 4 * n + 3) = n + 1
    BY <1>1 DEF Typed
  <2>2. 4 + 4 * n + 1 + 1 = 4 + 4 * n + 2 /\ 4 + 4 * n + 2 + 1 = 4 + 4 * n + 3
    BY <1>1
  <2> HIDE DEF n, script, texts
  <2>3. Fits("submit", 4 + 4 * n + 1)
    <3>1. StepFits(script[4 + 4 * n + 1]) /\ script[4 + 4 * n + 1].do = "click"
      BY <1>2 DEF StepFits, Find
    <3>2. script[4 + 4 * n + 1 + 1].do \in {"click", "press"}
      BY <1>2, <2>2 DEF Find, Must, Step
    <3>3. \A goal : Leads(script[4 + 4 * n + 1], script[4 + 4 * n + 1 + 1], goal)
      BY <3>2 DEF Leads
    <3>4. 4 + 4 * n + 1 < Len(script) /\ 4 + 4 * n + 1 # Len(script) /\ n + 1 \in 0 .. Len(texts)
      BY <1>1, <1>2, <1>3
    <3>5. Typed("submit", 4 + 4 * n + 1 + 1) = n + 1 /\ Len(texts) = n + 1
      BY <1>3, <2>1, <2>2
    <3>6. QED  BY <2>1, <3>1, <3>3, <3>4, <3>5 DEF Fits, script, texts
  <2>4. Fits("submit", 4 + 4 * n + 2)
    <3>1. StepFits(script[4 + 4 * n + 2]) /\ script[4 + 4 * n + 2].do = "click"
      BY <1>2 DEF StepFits, Find
    <3>2. script[4 + 4 * n + 2 + 1].do \in {"click", "press"}
      BY <1>2, <2>2 DEF Find, Must, Step
    <3>3. \A goal : Leads(script[4 + 4 * n + 2], script[4 + 4 * n + 2 + 1], goal)
      BY <3>2 DEF Leads
    <3>4. 4 + 4 * n + 2 < Len(script) /\ 4 + 4 * n + 2 # Len(script) /\ n + 1 \in 0 .. Len(texts)
      BY <1>1, <1>2, <1>3
    <3>5. Typed("submit", 4 + 4 * n + 2 + 1) = n + 1 /\ Len(texts) = n + 1
      BY <1>3, <2>1, <2>2
    <3>6. QED  BY <2>1, <3>1, <3>3, <3>4, <3>5 DEF Fits, script, texts
  <2>5. Fits("submit", 4 + 4 * n + 3)
    <3>1. StepFits(script[4 + 4 * n + 3]) /\ script[4 + 4 * n + 3].do = "press"
      BY <1>2 DEF StepFits, Must, Step
    <3>2. ~(4 + 4 * n + 3 < Len(script)) /\ n + 1 \in 0 .. Len(texts)
      BY <1>1, <1>2, <1>3
    <3>3. QED  BY <1>3, <2>1, <3>1, <3>2 DEF Fits, script, texts
  <2>6. QED  BY <2>3, <2>4, <2>5
<1>8. ASSUME NEW i \in 1 .. 4 * n  PROVE Fits("submit", 4 + i)
  <2>1. PICK q \in 0 .. n - 1 : i \in {4 * q + 1, 4 * q + 2, 4 * q + 3, 4 * q + 4}
    BY <1>1, Position
  <2>2. /\ 4 + (4 * q + 1) = 4 + 4 * q + 1 /\ 4 + (4 * q + 2) = 4 + 4 * q + 2
        /\ 4 + (4 * q + 3) = 4 + 4 * q + 3 /\ 4 + (4 * q + 4) = 4 + 4 * q + 4
    OBVIOUS
  <2>3. QED  BY <1>6, <2>1, <2>2
<1>9. ASSUME NEW i \in 1 .. Len(script)  PROVE Fits("submit", i)
  <2>1. i \in 1 .. 4 + 4 * n + 3
    BY <1>2
  <2> HIDE DEF script
  <2>2. CASE i \in 1 .. 4
    <3>1. i \in {1, 2, 3, 4}
      BY <2>2
    <3>2. QED  BY <1>5, <3>1
  <2>3. CASE i - 4 \in 1 .. 4 * n
    <3>1. 4 + (i - 4) = i
      BY <2>1
    <3>2. Fits("submit", 4 + (i - 4))
      BY <1>8, <2>3
    <3>3. QED  BY <3>1, <3>2
  <2>4. CASE i \in {4 + 4 * n + 1, 4 + 4 * n + 2, 4 + 4 * n + 3}
    BY <1>7, <2>4
  <2>5. i \in 1 .. 4 \/ i - 4 \in 1 .. 4 * n \/ i \in {4 + 4 * n + 1, 4 + 4 * n + 2, 4 + 4 * n + 3}
    BY <1>1, <2>1
  <2>6. QED  BY <2>2, <2>3, <2>4, <2>5
<1>10. QED  BY <1>9

(* Every step of every workflow that types makes ready for the next. *)
LEMMA ScriptsFit == \A w \in Texts : \A i \in DOMAIN Scripts[w] : Fits(w, i)
<1>1. \A w \in Texts : Scripts[w] \in Seq(Steps)
  BY ScriptSteps DEF Texts
<1>2. \A w \in Texts : DOMAIN Scripts[w] = 1 .. Len(Scripts[w])
  BY <1>1
<1>3. Len(Scripts["navigate"]) = 4 /\ Len(Scripts["choose"]) = 4
  BY ScriptSteps, NavigateSteps, ChooseSteps
<1>4. QED  BY <1>2, <1>3, NavigateFits, ChooseFits, OpenFormFits, SubmitFits DEF Texts

-----------------------------------------------------------------------------
(* A workflow is at one of its steps. *)
Running == phase \in {"step", "send"}
(* The types of the state, and what holds in each phase. *)
WorkflowTypes ==
    /\ phase \in {"idle", "step", "send", "done"}
    /\ result \in {"none", "success", "failure"}
    /\ events \in Seq(Events)
    /\ clean \in BOOLEAN /\ garbled \in BOOLEAN /\ broke \in BOOLEAN /\ cut \in BOOLEAN
    /\ Running => workflow \in DOMAIN Scripts /\ at \in DOMAIN Scripts[workflow]
    /\ phase = "send" => Acts
    /\ phase = "idle" => ~garbled /\ landed = <<>>
    /\ cut => phase = "idle"

(* The rest of a plan releases the keys that are down, and types a character
   under no other key than Shift.                                        *)
Settled(keys, rest) ==
    /\ \A k \in keys : \E i \in 1 .. Len(rest) : rest[i] = Up(k)
    /\ \A j \in 1 .. Len(rest) : rest[j].do = "char" => keys \subseteq {"SHIFT"}
    /\ Tidy(rest)
(* What a drag that broke off may have left down. *)
Stray == IF broke THEN {"left"} ELSE {}
(* What holds KeysBalanced up. *)
KeysInv ==
    ~cut => /\ ~garbled
            /\ phase = "send" => /\ Settled(held \ Stray, events)
                                 /\ Now.do = "drag" => LeftOnly(events)
            /\ phase # "send" => held \subseteq Stray
(* The first half of ReportHonest. *)
FileInv == phase = "done" /\ result = "success" /\ workflow = "create" => disk = "content"

(* The tail of a list that is not empty. *)
LEMMA TailOf ==
  ASSUME NEW S, NEW rest \in Seq(S), rest # <<>>
  PROVE  /\ Tail(rest) \in Seq(S) /\ Len(rest) \in Nat /\ Len(rest) > 0
         /\ Len(Tail(rest)) = Len(rest) - 1
         /\ \A i \in 1 .. Len(rest) - 1 : Tail(rest)[i] = rest[i + 1]
         /\ Head(rest) = rest[1] /\ rest[1] \in S
  OBVIOUS

(* What is left of a tidy plan is tidy. *)
LEMMA TailTidy ==
  ASSUME NEW rest \in Seq(Events), rest # <<>>, Tidy(rest)
  PROVE  Tidy(Tail(rest))
<1> DEFINE less == Tail(rest)
<1>1. /\ Len(rest) \in Nat /\ Len(less) = Len(rest) - 1
      /\ \A i \in 1 .. Len(rest) - 1 : less[i] = rest[i + 1]
  BY TailOf
<1> HIDE DEF less
<1>2. SUFFICES ASSUME NEW j \in 1 .. Len(less)
               PROVE  /\ less[j].do = "down" => \E i \in j + 1 .. Len(less) : less[i] = Up(less[j].key)
                      /\ less[j].do = "char" => \A i \in 1 .. j : less[i].do = "down" => less[i].key = "SHIFT"
  BY DEF Tidy, less
<1>3. j + 1 \in 1 .. Len(rest) /\ less[j] = rest[j + 1]
  BY <1>1
<1>4. ASSUME less[j].do = "down"  PROVE \E i \in j + 1 .. Len(less) : less[i] = Up(less[j].key)
  <2>1. PICK i \in j + 2 .. Len(rest) : rest[i] = Up(less[j].key)
    BY <1>1, <1>3, <1>4 DEF Tidy
  <2>2. i - 1 \in j + 1 .. Len(less) /\ less[i - 1] = rest[i]
    BY <1>1
  <2>3. QED  BY <2>1, <2>2
<1>5. ASSUME less[j].do = "char", NEW i \in 1 .. j, less[i].do = "down"  PROVE less[i].key = "SHIFT"
  <2>1. i + 1 \in 1 .. j + 1 /\ less[i] = rest[i + 1]
    BY <1>1
  <2>2. QED  BY <1>1, <1>3, <1>5, <2>1 DEF Tidy
<1>6. QED  BY <1>4, <1>5

(* Sending an event keeps the rest of the plan good for the keys that are
   then down.                                                            *)
LEMMA SettledStep ==
  ASSUME NEW keys, NEW rest \in Seq(Events), rest # <<>>, Settled(keys, rest)
  PROVE  /\ rest[1].do = "char" => keys \subseteq {"SHIFT"}
         /\ rest[1].do = "down" => Settled(keys \cup {rest[1].key}, Tail(rest))
         /\ rest[1].do = "up" => Settled(keys \ {rest[1].key}, Tail(rest))
         /\ rest[1].do \notin {"down", "up"} => Settled(keys, Tail(rest))
<1> DEFINE less == Tail(rest)
<1>1. /\ Len(rest) \in Nat /\ Len(rest) > 0 /\ Len(less) = Len(rest) - 1 /\ less \in Seq(Events)
      /\ \A i \in 1 .. Len(rest) - 1 : less[i] = rest[i + 1]
  BY TailOf
<1>2. Tidy(less) /\ Tidy(rest)
  BY TailTidy DEF Settled
<1> HIDE DEF less
<1>3. ASSUME NEW k, NEW i \in 2 .. Len(rest), rest[i] = Up(k)
      PROVE  \E j \in 1 .. Len(less) : less[j] = Up(k)
  <2>1. i - 1 \in 1 .. Len(less) /\ less[i - 1] = rest[i]
    BY <1>1
  <2>2. QED  BY <1>3, <2>1
<1>4. ASSUME NEW k \in keys, rest[1] # Up(k)
      PROVE  \E j \in 1 .. Len(less) : less[j] = Up(k)
  <2>1. PICK i \in 1 .. Len(rest) : rest[i] = Up(k)
    BY DEF Settled
  <2>2. i \in 2 .. Len(rest)
    BY <1>4, <2>1
  <2>3. QED  BY <1>3, <2>1, <2>2
<1>5. ASSUME NEW j \in 1 .. Len(less), less[j].do = "char"
      PROVE  keys \subseteq {"SHIFT"} /\ (rest[1].do = "down" => rest[1].key = "SHIFT")
  <2>1. j + 1 \in 1 .. Len(rest) /\ rest[j + 1].do = "char" /\ 1 \in 1 .. j + 1
    BY <1>1, <1>5
  <2>2. QED  BY <1>2, <2>1 DEF Settled, Tidy
<1>6. ASSUME rest[1].do = "char"  PROVE keys \subseteq {"SHIFT"}
  BY <1>1, <1>6 DEF Settled
<1>7. ASSUME rest[1].do = "down"  PROVE Settled(keys \cup {rest[1].key}, less)
  <2>1. PICK i \in 2 .. Len(rest) : rest[i] = Up(rest[1].key)
    BY <1>1, <1>2, <1>7 DEF Tidy
  <2>2. \E j \in 1 .. Len(less) : less[j] = Up(rest[1].key)
    BY <1>3, <2>1
  <2>3. \A k \in keys : rest[1] # Up(k)
    BY <1>7 DEF Up
  <2>4. QED  BY <1>2, <1>4, <1>5, <1>7, <2>2, <2>3 DEF Settled
<1>8. ASSUME rest[1].do = "up"  PROVE Settled(keys \ {rest[1].key}, less)
  <2>1. \A k \in keys \ {rest[1].key} : rest[1] # Up(k)
    BY DEF Up
  <2>2. QED  BY <1>2, <1>4, <1>5, <2>1 DEF Settled
<1>9. ASSUME rest[1].do \notin {"down", "up"}  PROVE Settled(keys, less)
  <2>1. \A k \in keys : rest[1] # Up(k)
    BY <1>9 DEF Up
  <2>2. QED  BY <1>2, <1>4, <1>5, <2>1 DEF Settled
<1>10. QED  BY <1>6, <1>7, <1>8, <1>9 DEF less

(* A tidy plan may start with no key down, and ends with none. *)
LEMMA SettledEnds ==
  /\ \A plan : Tidy(plan) => Settled({}, plan)
  /\ \A keys : Settled(keys, <<>>) => keys = {}
  BY DEF Settled

(* What settles some keys settles fewer. *)
LEMMA SettledFewer ==
  ASSUME NEW keys, NEW fewer, NEW rest, Settled(keys, rest), fewer \subseteq keys
  PROVE  Settled(fewer, rest)
  BY DEF Settled

(* What is left of a drag releases nothing but its button. *)
LEMMA TailLeft ==
  ASSUME NEW rest \in Seq(Events), rest # <<>>, LeftOnly(rest)
  PROVE  LeftOnly(Tail(rest))
<1> DEFINE less == Tail(rest)
<1>1. /\ Len(rest) \in Nat /\ Len(less) = Len(rest) - 1
      /\ \A i \in 1 .. Len(rest) - 1 : less[i] = rest[i + 1]
  BY TailOf
<1> HIDE DEF less
<1>2. ASSUME NEW j \in 1 .. Len(less), less[j].do = "up"  PROVE less[j].key = "left"
  <2>1. j + 1 \in 1 .. Len(rest) /\ less[j] = rest[j + 1]
    BY <1>1
  <2>2. QED  BY <1>2, <2>1 DEF LeftOnly
<1>3. QED  BY <1>2 DEF LeftOnly, less

(* In the middle of a drag nothing else than its button is down. *)
LEMMA DragHolds ==
  ASSUME NEW keys, NEW rest, Settled(keys, rest), LeftOnly(rest)
  PROVE  keys \subseteq {"left"}
<1>1. ASSUME NEW k \in keys  PROVE k = "left"
  <2>1. PICK i \in 1 .. Len(rest) : rest[i] = Up(k)
    BY DEF Settled
  <2>2. QED  BY <2>1 DEF LeftOnly, Up
<1>2. QED  BY <1>1

-----------------------------------------------------------------------------
(* A running workflow is at one of its steps. *)
LEMMA NowStep ==
  ASSUME WorkflowTypes, Running
  PROVE  /\ Scripts[workflow] \in Seq(Steps) /\ Len(Scripts[workflow]) \in Nat
         /\ at \in 1 .. Len(Scripts[workflow]) /\ DOMAIN Scripts[workflow] = 1 .. Len(Scripts[workflow])
         /\ Now \in Steps /\ Now.what \in Words
<1>1. Scripts[workflow] \in Seq(Steps)
  BY ScriptSteps DEF WorkflowTypes
<1>2. Now \in Steps
  BY <1>1 DEF WorkflowTypes, Now
<1>3. Now.what \in Words
  BY <1>2 DEF Steps
<1>4. QED  BY <1>1, <1>2, <1>3 DEF WorkflowTypes

(* How a step can end.                                                     *)
Ends(r) == phase' = "done" /\ result' = r /\ at' = at
(* The workflow goes on to its next step. *)
Proceeds == /\ phase' = "step" /\ result' = result
            /\ at' = at + 1 /\ at < Len(Scripts[workflow]) /\ at' \in DOMAIN Scripts[workflow]
(* The step is the last of its workflow. *)
IsLast == at = Len(Scripts[workflow])

(* Success of a step ends the workflow only at its last step or another way
   in mind; failure never does if the step must succeed.                 *)
LEMMA Outcomes ==
  ASSUME WorkflowTypes, Running
  PROVE  /\ Advance => (Ends("success") /\ IsLast) \/ Proceeds
         /\ Succeed => (Ends("success") /\ (IsLast \/ Now.on = "else")) \/ (Proceeds /\ Now.on # "else")
         /\ Fail => Ends("failure") \/ (Ends("success") /\ IsLast /\ Now.on # "must")
                    \/ (Proceeds /\ Now.on # "must")
<1>1. Advance => (Ends("success") /\ IsLast) \/ Proceeds
  BY NowStep DEF Advance, Finish, Ends, IsLast, Proceeds
<1>2. QED
  BY <1>1 DEF Succeed, Fail, Finish, Ends

(* A step that ends with no event sent, and what ends after its last one.  *)
Quietly == NotFound \/ FoundOnly \/ Confirmed \/ NotConfirmed \/ Verify \/ Halt \/ Raise

(* A step without events leaves the keys, the clipboard and the world alone.*)
LEMMA QuietStep ==
  ASSUME WorkflowTypes, Quietly
  PROVE  /\ phase = "step" /\ Running /\ (Ends("success") \/ Ends("failure") \/ Proceeds)
         /\ UNCHANGED <<workflow, events, held, clipboard, world, garbled, broke, cut>>
         /\ clean' \in {clean, FALSE}
         /\ ~(Halt \/ Raise) => UNCHANGED <<landed, clean>>
<1>1. phase = "step" /\ Running
  BY DEF Quietly, NotFound, FoundOnly, Confirmed, NotConfirmed, Verify, Halt, Raise, Running
<1>2. Advance \/ Succeed \/ Fail
  BY DEF Quietly, NotFound, FoundOnly, Confirmed, NotConfirmed, Verify, Halt, Raise
<1>3. Ends("success") \/ Ends("failure") \/ Proceeds
  BY <1>1, <1>2, Outcomes
<1>4. UNCHANGED <<workflow, events, held, clipboard, world, garbled, broke, cut>>
  BY DEF Quietly, NotFound, FoundOnly, Confirmed, NotConfirmed, Verify, Halt, Raise, deskVars, history
<1>5. ~(Halt \/ Raise) => UNCHANGED <<landed, clean>>
  BY DEF Quietly, NotFound, FoundOnly, Confirmed, NotConfirmed, Verify, history
<1>6. Halt \/ Raise => clean' \in {clean, FALSE}
  BY DEF Halt, Raise, Slip, Soil
<1>7. QED  BY <1>1, <1>3, <1>4, <1>5, <1>6

(* Sending an event: one event fewer, and the keys it changes. *)
LEMMA SendStep ==
  ASSUME WorkflowTypes, Send
  PROVE  /\ phase = "send" /\ Running /\ ~cut /\ events # <<>> /\ events \in Seq(Events)
         /\ events' = Tail(events) /\ events' \in Seq(Events) /\ Event = events[1]
         /\ UNCHANGED <<workflow, at, phase, result, halted, cut>>
         /\ clean' \in {clean, FALSE}
         /\ broke' = (broke /\ ~(Event.do = "up" /\ Event.key = "left"))
         /\ held' = CASE Event.do = "down" -> held \cup {Event.key}
                      [] Event.do = "up" -> held \ {Event.key}
                      [] OTHER -> held
         /\ garbled' = (garbled \/ (Event.do = "char" /\ ~AsText))
<1>1. phase = "send" /\ Running /\ ~cut /\ events # <<>> /\ events \in Seq(Events)
  BY DEF Send, Running, WorkflowTypes
<1>2. Event = events[1] /\ Tail(events) \in Seq(Events)
  BY <1>1, TailOf DEF Event
<1>3. clean' \in {clean, FALSE}
  BY DEF Send, PressKey, ReleaseKey, SendChar, MovePointer, CopyText, Soil
<1>4. held' = CASE Event.do = "down" -> held \cup {Event.key}
                [] Event.do = "up" -> held \ {Event.key}
                [] OTHER -> held
  BY DEF Send, PressKey, ReleaseKey, SendChar, MovePointer, CopyText
<1>5. broke \in BOOLEAN /\ broke' = (broke /\ ~(Event.do = "up" /\ Event.key = "left"))
  BY DEF Send, PressKey, ReleaseKey, SendChar, MovePointer, CopyText, WorkflowTypes
<1>6. QED  BY <1>1, <1>2, <1>3, <1>4, <1>5 DEF Send

(* A drag that breaks off: its button stays down, and the step has failed. *)
LEMMA BreakOffStep ==
  ASSUME WorkflowTypes, BreakOff
  PROVE  /\ phase = "send" /\ Running /\ ~cut /\ Now.do = "drag" /\ Fail
         /\ Ends("success") \/ Ends("failure") \/ Proceeds
         /\ events' = <<>> /\ broke' = (broke \/ "left" \in held) /\ clean' \in {clean, FALSE}
         /\ UNCHANGED <<workflow, held, focus, clipboard, garbled, cut>>
<1>1. phase = "send" /\ Running /\ ~cut /\ Now.do = "drag" /\ Fail
  BY DEF BreakOff, Running, WorkflowTypes
<1>2. Ends("success") \/ Ends("failure") \/ Proceeds
  BY <1>1, Outcomes
<1>3. clean' \in {clean, FALSE}
  BY DEF BreakOff, Slip, Soil
<1>4. QED  BY <1>1, <1>2, <1>3 DEF BreakOff, deskVars

(* The executor lets an action through: its plan is tidy. *)
LEMMA DispatchStep ==
  ASSUME WorkflowTypes, Dispatch
  PROVE  /\ phase = "step" /\ Running /\ Acts /\ phase' = "send"
         /\ events' \in EventsOf(Now) /\ events' \in Seq(Events) /\ Tidy(events')
         /\ Now.do = "drag" => LeftOnly(events')
         /\ UNCHANGED <<workflow, at, result, deskVars, world, history>>
<1>1. phase = "step" /\ Running /\ Acts /\ phase' = "send" /\ events' \in EventsOf(Now)
      /\ UNCHANGED <<workflow, at, result, deskVars, world, history>>
  BY DEF Dispatch, Running
<1>2. Now.what \in Words
  BY <1>1, NowStep
<1>3. /\ events' \in Seq(Events) /\ Tidy(events')
      /\ Now.do = "drag" => LeftOnly(events')
  BY <1>1, <1>2, TidyPlans DEF Acts
<1>4. QED  BY <1>1, <1>3

(* The last event of an action was sent. *)
LEMMA SentStep ==
  ASSUME WorkflowTypes, Sent
  PROVE  /\ phase = "send" /\ Running /\ ~cut /\ events = <<>>
         /\ (Ends("success") /\ (IsLast \/ Now.on = "else")) \/ (Proceeds /\ Now.on # "else")
         /\ UNCHANGED <<workflow, events, deskVars, world, history>>
<1>1. phase = "send" /\ Running /\ ~cut /\ events = <<>>
  BY DEF Sent, Running, WorkflowTypes
<1>2. QED  BY <1>1, Outcomes DEF Sent

-----------------------------------------------------------------------------
(* Every step keeps the types. *)
LEMMA TypesNext == WorkflowTypes /\ [WorkflowNext]_workflowVars => WorkflowTypes'
<1> SUFFICES ASSUME WorkflowTypes, [WorkflowNext]_workflowVars  PROVE WorkflowTypes'
  OBVIOUS
<1>1. ASSUME NEW w \in DOMAIN Scripts, Begin(w)  PROVE WorkflowTypes'
  <2>1. 1 \in DOMAIN Scripts[w]
    BY ScriptSteps
  <2>2. QED  BY <1>1, <2>1 DEF Begin, WorkflowTypes, Running, history
<1>2. CASE BreakOff
  <2>1. /\ clean' \in BOOLEAN /\ broke' \in BOOLEAN /\ UNCHANGED <<workflow, garbled, cut>> /\ phase = "send"
        /\ (Ends("success") \/ Ends("failure") \/ Proceeds)
    BY <1>2, BreakOffStep DEF WorkflowTypes
  <2>2. ~cut /\ workflow \in DOMAIN Scripts
    BY <2>1 DEF WorkflowTypes, Running
  <2>3. events' \in Seq(Events)
    BY <1>2, BreakOffStep
  <2>4. CASE Ends("success") \/ Ends("failure")
    BY <2>1, <2>2, <2>3, <2>4 DEF WorkflowTypes, Running, Ends
  <2>5. CASE Proceeds
    BY <2>1, <2>2, <2>3, <2>5 DEF WorkflowTypes, Running, Proceeds
  <2>6. QED  BY <2>1, <2>4, <2>5
<1>3. CASE Quietly
  <2>1. clean' \in BOOLEAN /\ UNCHANGED <<workflow, events, garbled, broke, cut>> /\ phase = "step"
        /\ (Ends("success") \/ Ends("failure") \/ Proceeds)
    BY <1>3, QuietStep DEF WorkflowTypes
  <2>2. ~cut /\ events \in Seq(Events) /\ workflow \in DOMAIN Scripts
    BY <2>1 DEF WorkflowTypes, Running
  <2>3. CASE Ends("success") \/ Ends("failure")
    BY <2>1, <2>2, <2>3 DEF WorkflowTypes, Running, Ends
  <2>4. CASE Proceeds
    BY <2>1, <2>2, <2>4 DEF WorkflowTypes, Running, Proceeds
  <2>5. QED  BY <2>1, <2>3, <2>4
<1>4. CASE Dispatch
  BY <1>4, DispatchStep DEF WorkflowTypes, Running, history, Acts, Now
<1>5. CASE Send
  <2>1. garbled' \in BOOLEAN /\ broke' \in BOOLEAN
    BY <1>5, SendStep DEF WorkflowTypes
  <2>2. /\ phase = "send" /\ ~cut /\ events' \in Seq(Events) /\ clean' \in BOOLEAN
        /\ UNCHANGED <<workflow, at, phase, result, cut>>
    BY <1>5, SendStep DEF WorkflowTypes
  <2>3. QED  BY <2>1, <2>2 DEF WorkflowTypes, Running, Acts, Now
<1>6. CASE Sent
  BY <1>6, SentStep DEF WorkflowTypes, Running, history, Ends, Proceeds
<1>7. CASE Return
  <2>1. /\ phase' = "idle" /\ result' = "none" /\ events' = events /\ clean' \in BOOLEAN /\ garbled' = FALSE
        /\ landed' = <<>> /\ cut' = cut /\ broke' = broke
    BY <1>7 DEF Return, Forget
  <2>2. phase' # "send" /\ ~Running'
    BY <2>1 DEF Running
  <2>3. QED  BY <2>1, <2>2 DEF WorkflowTypes
<1>8. CASE Kill
  <2>1. cut' \in BOOLEAN
    BY <1>8 DEF Kill
  <2>2. phase' = "idle" /\ events' = <<>> /\ result' = "none" /\ clean' \in BOOLEAN /\ garbled' = FALSE
        /\ landed' = <<>> /\ broke' = broke
    BY <1>8 DEF Kill, Forget
  <2>3. events' \in Seq(Events) /\ phase' # "send" /\ ~Running'
    BY <2>2 DEF Running
  <2>4. clean' \in BOOLEAN /\ garbled' \in BOOLEAN /\ broke' \in BOOLEAN
    BY <2>2 DEF WorkflowTypes
  <2>5. QED  BY <2>1, <2>2, <2>3, <2>4 DEF WorkflowTypes
<1>9. CASE Release
  BY <1>9 DEF Release, WorkflowTypes, Running, runVars
<1>10. CASE World
  <2>1. UNCHANGED <<runVars, garbled, broke, cut>> /\ phase # "idle" /\ clean' \in {clean, FALSE}
    BY <1>10 DEF World, Distract, CopyElsewhere, StopChanges, Soil, history
  <2>2. QED  BY <2>1 DEF WorkflowTypes, Running, runVars, Acts, Now
<1>11. CASE UNCHANGED workflowVars
  BY <1>11 DEF workflowVars, WorkflowTypes, Running, runVars, history, Acts, Now
<1>12. QED
  BY <1>1, <1>2, <1>3, <1>4, <1>5, <1>6, <1>7, <1>8, <1>9, <1>10, <1>11
     DEF WorkflowNext, Run, Quietly

(* Every step keeps the keys settled: an action is sent to its end or the
   process is cut.                                                       *)
LEMMA KeysNext == WorkflowTypes /\ KeysInv /\ [WorkflowNext]_workflowVars => KeysInv'
<1> SUFFICES ASSUME WorkflowTypes, KeysInv, [WorkflowNext]_workflowVars  PROVE KeysInv'
  OBVIOUS
<1>1. ASSUME NEW w \in DOMAIN Scripts, Begin(w)  PROVE KeysInv'
  BY <1>1 DEF Begin, KeysInv, Stray, deskVars, history
<1>2. CASE BreakOff
  <2>1. /\ phase = "send" /\ ~cut /\ Now.do = "drag" /\ phase' # "send"
        /\ UNCHANGED <<held, garbled, cut>> /\ broke' = (broke \/ "left" \in held)
    BY <1>2, BreakOffStep DEF Ends, Proceeds
  <2>2. ~garbled /\ held \ Stray \subseteq {"left"}
    BY <2>1, DragHolds DEF KeysInv
  <2>3. held' \subseteq Stray'
    BY <2>1, <2>2 DEF Stray
  <2>4. QED  BY <2>1, <2>2, <2>3 DEF KeysInv
<1>3. CASE Quietly
  <2>1. phase = "step" /\ phase' # "send" /\ UNCHANGED <<held, garbled, broke, cut>>
    BY <1>3, QuietStep DEF Ends, Proceeds
  <2>2. QED  BY <2>1 DEF KeysInv, Stray
<1>4. CASE Dispatch
  <2>1. /\ phase = "step" /\ phase' = "send" /\ UNCHANGED <<workflow, at, held, garbled, broke, cut>>
        /\ Tidy(events') /\ (Now.do = "drag" => LeftOnly(events'))
    BY <1>4, DispatchStep DEF deskVars, history
  <2>2. ~cut => ~garbled /\ held \ Stray = {}
    BY <2>1 DEF KeysInv
  <2>3. Now' = Now /\ Stray' = Stray
    BY <2>1 DEF Now, Stray
  <2>4. Settled({}, events')
    BY <2>1, SettledEnds
  <2>5. QED  BY <2>1, <2>2, <2>3, <2>4 DEF KeysInv
<1>5. CASE Send
  <2> DEFINE mine == held \ Stray
  <2>1. /\ ~garbled /\ Settled(mine, events) /\ events # <<>> /\ events \in Seq(Events)
        /\ phase = "send" /\ ~cut /\ (Now.do = "drag" => LeftOnly(events))
    BY <1>5, SendStep DEF KeysInv
  <2>2. /\ events' = Tail(events) /\ Event = events[1] /\ UNCHANGED <<phase, cut>>
        /\ held' = CASE Event.do = "down" -> held \cup {Event.key}
                     [] Event.do = "up" -> held \ {Event.key}
                     [] OTHER -> held
        /\ broke' = (broke /\ ~(Event.do = "up" /\ Event.key = "left"))
    BY <1>5, SendStep
  <2>3. Settled((held \ Stray)', events')
    <3>1. CASE Event.do = "down"
      <4>1. Settled(mine \cup {Event.key}, events')
        BY <2>1, <2>2, <3>1, SettledStep
      <4>2. (held \ Stray)' \subseteq mine \cup {Event.key}
        BY <2>2, <3>1 DEF Stray
      <4>3. QED  BY <4>1, <4>2, SettledFewer
    <3>2. CASE Event.do = "up"
      <4>1. Settled(mine \ {Event.key}, events')
        BY <2>1, <2>2, <3>2, SettledStep
      <4>2. (held \ Stray)' \subseteq mine \ {Event.key}
        BY <2>2, <3>2 DEF Stray
      <4>3. QED  BY <4>1, <4>2, SettledFewer
    <3>3. CASE Event.do \notin {"down", "up"}
      <4>1. Settled(mine, events')
        BY <2>1, <2>2, <3>3, SettledStep
      <4>2. (held \ Stray)' = mine
        BY <2>2, <3>3 DEF Stray, WorkflowTypes
      <4>3. QED  BY <4>1, <4>2
    <3>4. QED  BY <3>1, <3>2, <3>3
  <2>4. ~garbled'
    <3>1. Event.do = "char" => mine \subseteq {"SHIFT"}
      BY <2>1, <2>2, SettledStep
    <3>2. Event.do = "char" => AsText
      BY <3>1 DEF Stray, AsText
    <3>3. garbled' = (garbled \/ (Event.do = "char" /\ ~AsText))
      BY <1>5, SendStep
    <3>4. QED  BY <2>1, <3>2, <3>3
  <2>5. Now'.do = "drag" => LeftOnly(events')
    <3>1. Now' = Now
      BY <1>5, SendStep DEF Now
    <3>2. QED  BY <2>1, <2>2, <3>1, TailLeft
  <2>6. QED  BY <2>1, <2>2, <2>3, <2>4, <2>5 DEF KeysInv
<1>6. CASE Sent
  <2>1. phase = "send" /\ ~cut /\ events = <<>> /\ UNCHANGED <<held, garbled, broke, cut>>
        /\ phase' # "send"
    BY <1>6, SentStep DEF Ends, Proceeds, deskVars, history
  <2>2. held \ Stray = {} /\ ~garbled
    BY <2>1, SettledEnds DEF KeysInv
  <2>3. QED  BY <2>1, <2>2 DEF KeysInv, Stray
<1>7. CASE Return
  BY <1>7 DEF Return, Forget, KeysInv, Stray
<1>8. CASE Kill
  <2>1. /\ phase' = "idle" /\ held' = held /\ broke' = broke /\ ~garbled'
        /\ (cut' <=> cut \/ phase = "send")
    BY <1>8 DEF Kill, Forget
  <2>2. QED  BY <2>1 DEF KeysInv, Stray
<1>9. CASE Release
  BY <1>9 DEF Release, KeysInv, WorkflowTypes, runVars, Stray
<1>10. CASE World
  <2>1. UNCHANGED <<held, garbled, broke, cut, phase, events, workflow, at>>
    BY <1>10 DEF World, Distract, CopyElsewhere, StopChanges, runVars, deskVars, history
  <2>2. QED  BY <2>1 DEF KeysInv, Stray, Now
<1>11. CASE UNCHANGED workflowVars
  BY <1>11 DEF workflowVars, KeysInv, Stray, Now, runVars, deskVars, history
<1>12. QED
  BY <1>1, <1>2, <1>3, <1>4, <1>5, <1>6, <1>7, <1>8, <1>9, <1>10, <1>11
     DEF WorkflowNext, Run, Quietly

(* A workflow that creates a file succeeds only by a verification. *)
LEMMA FileNext == WorkflowTypes /\ FileInv /\ [WorkflowNext]_workflowVars => FileInv'
<1> SUFFICES ASSUME WorkflowTypes, FileInv, [WorkflowNext]_workflowVars,
                    phase' = "done", result' = "success", workflow' = "create"
             PROVE  disk' = "content"
  BY DEF FileInv
<1>1. CASE phase = "done"
  <2>1. UNCHANGED <<phase, result, workflow, disk>>
    BY <1>1 DEF WorkflowNext, Begin, Run, NotFound, FoundOnly, Confirmed, NotConfirmed, Verify,
       Halt, Raise, Dispatch, Send, BreakOff, Sent, Return, Kill, Release, World,
       Distract, CopyElsewhere, StopChanges, runVars, world, workflowVars, WorkflowTypes
  <2>2. QED  BY <1>1, <2>1 DEF FileInv
<1>2. CASE phase \in {"step", "send"}
  <2>1. workflow = "create" /\ Running
    BY <1>2 DEF WorkflowNext, Begin, Run, NotFound, FoundOnly, Confirmed, NotConfirmed, Verify,
       Halt, Raise, Dispatch, Send, BreakOff, Sent, Return, Kill, Release, World,
       Distract, CopyElsewhere, StopChanges, runVars, workflowVars, Running, WorkflowTypes
  <2>2. /\ Len(Scripts[workflow]) = 14 /\ at \in 1 .. 14
        /\ Now.on = "else" \/ IsLast => Now.do = "verify" /\ Now.what = "content" /\ ~Now.find
        /\ IsLast => Now.on = "must"
    BY <2>1, NowStep, ScriptSteps, CreateSteps DEF Now, IsLast
  <2>3. CASE Quietly
    <3>1. (Now.on = "else" \/ IsLast) /\ (IsLast => Now.on = "must")
      BY <2>1, <2>2, <2>3, Outcomes DEF Quietly, NotFound, FoundOnly, Confirmed, NotConfirmed, Verify,
         Halt, Raise, Ends, Proceeds
    <3>2. Now.do = "verify" /\ ~Now.find /\ Now.what = "content"
      BY <2>2, <3>1
    <3>3. Verify
      BY <2>3, <3>2 DEF Quietly, NotFound, FoundOnly, Confirmed, NotConfirmed, Halt, Raise, Acts
    <3>4. disk = "content"
      BY <2>1, <2>2, <3>2, <3>3, Outcomes DEF Verify, Ends, Proceeds
    <3>5. QED  BY <3>3, <3>4 DEF Verify, world
  <2>4. CASE Sent
    <3>1. Acts /\ (IsLast \/ Now.on = "else")
      BY <2>4, SentStep DEF Ends, Proceeds, WorkflowTypes
    <3>2. QED  BY <2>2, <3>1 DEF Acts
  <2>5. CASE Dispatch \/ Send
    BY <1>2, <2>5, DispatchStep, SendStep
  <2>6. CASE BreakOff
    <3>1. Fail
      BY <2>6 DEF BreakOff
    <3>2. IsLast /\ Now.on # "must"
      BY <2>1, <3>1, Outcomes DEF Ends, Proceeds
    <3>3. QED  BY <2>2, <3>2
  <2>7. QED
    BY <1>2, <2>1, <2>3, <2>4, <2>5, <2>6
       DEF WorkflowNext, Begin, Run, Quietly, Return, Kill, Release, World,
           Distract, CopyElsewhere, StopChanges, runVars, workflowVars, Running, WorkflowTypes
<1>3. CASE phase = "idle"
  <2>1. workflow' # "create" \/ phase' # "done"
    BY <1>3 DEF WorkflowNext, Begin, Run, NotFound, FoundOnly, Confirmed, NotConfirmed, Verify,
       Halt, Raise, Dispatch, Send, BreakOff, Sent, Return, Kill, Release, World,
       Distract, CopyElsewhere, StopChanges, runVars, workflowVars, WorkflowTypes
  <2>2. QED  BY <2>1
<1>4. QED  BY <1>1, <1>2, <1>3 DEF WorkflowTypes

-----------------------------------------------------------------------------
(* The head and the tail of a short list. *)
LEMMA TailTuples ==
  ASSUME NEW list
  PROVE  /\ \A a : list = <<a>> => Head(list) = a /\ Tail(list) = <<>>
         /\ \A a, b : list = <<a, b>> => Head(list) = a /\ Tail(list) = <<b>>
         /\ \A a, b, c : list = <<a, b, c>> => Head(list) = a /\ Tail(list) = <<b, c>>
         /\ \A a, b, c, d : list = <<a, b, c, d>> => Head(list) = a /\ Tail(list) = <<b, c, d>>
         /\ \A a, b, c, d, e : list = <<a, b, c, d, e>> => Head(list) = a /\ Tail(list) = <<b, c, d, e>>
<1>1. ASSUME NEW a, list = <<a>>  PROVE Head(list) = a /\ Tail(list) = <<>>
  BY <1>1
<1>2. ASSUME NEW a, NEW b, list = <<a, b>>  PROVE Head(list) = a /\ Tail(list) = <<b>>
  BY <1>2
<1>3. ASSUME NEW a, NEW b, NEW c, list = <<a, b, c>>  PROVE Head(list) = a /\ Tail(list) = <<b, c>>
  BY <1>3
<1>4. ASSUME NEW a, NEW b, NEW c, NEW d, list = <<a, b, c, d>>
      PROVE  Head(list) = a /\ Tail(list) = <<b, c, d>>
  BY <1>4
<1>5. ASSUME NEW a, NEW b, NEW c, NEW d, NEW e, list = <<a, b, c, d, e>>
      PROVE  Head(list) = a /\ Tail(list) = <<b, c, d, e>>
  BY <1>5
<1>6. QED  BY <1>1, <1>2, <1>3, <1>4, <1>5

(* A combination of known keys is sent whole. *)
LEMMA Combination ==
  ASSUME NEW k \in {"A", "L", "V"}
  PROVE  Hotkey(<<"CTRL", k>>) = <<Down("CTRL"), Down(k), Up(k), Up("CTRL")>>
<1>1. k \in Words /\ {"CTRL", k} \subseteq Key
  BY KnownWords, WorkflowAssumption
<1>2. LET plan == Hotkey(<<"CTRL", k>>)
      IN  /\ plan \in Seq(Events) /\ Len(plan) = 4 /\ plan[1] = Down("CTRL") /\ plan[2] = Down(k)
          /\ plan[3] = Up(k) /\ plan[4] = Up("CTRL")
  BY <1>1, HotkeyPlan
<1>3. QED  BY <1>2
(* One event before four. *)
LEMMA Joined ==
  ASSUME NEW a, NEW b, NEW c, NEW d, NEW e
  PROVE  <<a>> \o <<b, c, d, e>> = <<a, b, c, d, e>>
<1> DEFINE S == {a, b, c, d, e}
           x == <<a>>
           y == <<b, c, d, e>>
<1>1. x \in Seq(S) /\ y \in Seq(S)
  OBVIOUS
<1>2. Len(x) = 1 /\ Len(y) = 4 /\ x[1] = a /\ y[1] = b /\ y[2] = c /\ y[3] = d /\ y[4] = e
      /\ 1 \in 1 .. Len(x) /\ {1, 2, 3, 4} \subseteq 1 .. Len(y)
  OBVIOUS
<1> HIDE DEF x, y, S
<1>3. /\ x \o y \in Seq(S) /\ Len(x \o y) = Len(x) + Len(y)
      /\ \A i \in 1 .. Len(x) : (x \o y)[i] = x[i]
      /\ \A i \in 1 .. Len(y) : (x \o y)[Len(x) + i] = y[i]
  BY ONLY ConcatAt, <1>1
<1>4. /\ x \o y \in Seq(S) /\ Len(x \o y) = 5 /\ (x \o y)[1] = a
      /\ (x \o y)[1 + 1] = b /\ (x \o y)[1 + 2] = c /\ (x \o y)[1 + 3] = d /\ (x \o y)[1 + 4] = e
  BY <1>2, <1>3
<1> DEFINE both == x \o y
<1> HIDE DEF both
<1>5. both \in Seq(S) /\ Len(both) = 5 /\ both[1] = a /\ both[2] = b /\ both[3] = c /\ both[4] = d /\ both[5] = e
  BY <1>4 DEF both
<1>6. both = <<a, b, c, d, e>>
  BY <1>5
<1>7. QED  BY <1>6 DEF x, y, both

(* One more text has arrived. *)
LEMMA NextText ==
  ASSUME NEW S, NEW texts \in Seq(S), NEW n \in 0 .. Len(texts) - 1
  PROVE  Append(SubSeq(texts, 1, n), texts[n + 1]) = SubSeq(texts, 1, n + 1)
  OBVIOUS
(* All texts have arrived, or none. *)
LEMMA AllTexts ==
  ASSUME NEW S, NEW texts \in Seq(S)
  PROVE  SubSeq(texts, 1, Len(texts)) = texts /\ SubSeq(texts, 1, 0) = <<>>
  OBVIOUS

(* The first n texts arrived where they were meant to. *)
Arrived(n) == landed = SubSeq(Meant[workflow], 1, n)
(* How many texts were typed before this step. *)
Count == Typed(workflow, at)
(* Where the next text belongs. *)
Goal == Meant[workflow][Count + 1][2]
(* A combination: all of it, what is left after Ctrl, and its releases. *)
Chorded(k) == <<Down("CTRL"), Down(k), Up(k), Up("CTRL")>>
Halfway(k) == <<Down(k), Up(k), Up("CTRL")>>
Released(k) == {<<Up(k), Up("CTRL")>>, <<Up("CTRL")>>, <<>>}

(* A step starts with its texts in place and the keyboard where it needs it.*)
Ready ==
    /\ Arrived(Count)
    /\ Now.do = "type" \/ (Now.do = "hotkey" /\ Now.what = "A") => focus = Goal
    /\ Now.do = "hotkey" /\ Now.what = "L" => focus # "elsewhere"
(* In the middle of a click: when it is over it has the keyboard. *)
Clicking ==
    /\ Arrived(Count)
    /\ \/ events \in {<<Move, Down("left"), Up("left")>>, <<Down("left"), Up("left")>>, <<Up("left")>>}
       \/ events = <<>> /\ focus = Now.what
(* In the middle of Enter. *)
Pressing ==
    Arrived(Count) /\ events \in {<<Down("ENTER"), Up("ENTER")>>, <<Up("ENTER")>>, <<>>}
(* In the middle of Ctrl+A. *)
Selecting ==
    /\ Arrived(Count) /\ focus = Goal
    /\ events \in {Chorded("A"), Halfway("A")} \cup Released("A")
(* In the middle of Ctrl+L: the address has the keyboard once L is down. *)
Addressing ==
    /\ Arrived(Count)
    /\ \/ events = Chorded("L") /\ focus # "elsewhere"
       \/ events = Halfway("L") /\ focus # "elsewhere" /\ "CTRL" \in held
       \/ events \in Released("L") /\ focus = "address"
(* In the middle of a text: before it arrives, with what it needs on the
   clipboard or down, or after.                                          *)
Typing ==
    /\ focus = Goal
    /\ \/ /\ Arrived(Count)
          /\ events \in {<<Char(Now.what)>>, <<Char(Now.what), Up("SHIFT")>>,
                         <<Down("SHIFT"), Char(Now.what), Up("SHIFT")>>, <<SetClipboard(Now.what)>> \o Chorded("V")}
       \/ Arrived(Count) /\ events = Chorded("V") /\ clipboard = Now.what
       \/ Arrived(Count) /\ events = Halfway("V") /\ clipboard = Now.what /\ "CTRL" \in held
       \/ Arrived(Count + 1) /\ events \in {<<Up("SHIFT")>>, <<>>} \cup Released("V")
(* In the middle of an action. *)
Sending ==
    /\ Now.do = "click" => Clicking
    /\ Now.do = "press" => Pressing
    /\ Now.do = "hotkey" => (Now.what = "A" /\ Selecting) \/ (Now.what = "L" /\ Addressing)
    /\ Now.do = "type" => Typing
(* The second half of ReportHonest, while nobody interferes. *)
TextInv ==
    clean /\ workflow \in Texts =>
        /\ phase = "step" => Ready
        /\ phase = "send" => Sending
        /\ phase = "done" /\ result = "success" => landed = Meant[workflow]

(* ScriptsFit at the step of a running workflow. *)
LEMMA FitsNow ==
  ASSUME WorkflowTypes, Running, workflow \in Texts
  PROVE  LET texts == Meant[workflow]
         IN  /\ texts \in Seq(Words \X Words) /\ StepFits(Now)
             /\ Count \in Nat /\ Count <= Len(texts)
             /\ Now.do = "type" => /\ ~IsLast /\ Now.on = "must"
                                   /\ Count \in 0 .. Len(texts) - 1 /\ texts[Count + 1] = <<Now.what, Goal>>
             /\ ~IsLast => /\ Typed(workflow, at + 1) = IF Now.do = "type" THEN Count + 1 ELSE Count
                           /\ Leads(Now, Scripts[workflow][at + 1], Goal)
             /\ IsLast \/ Now.on = "else" => Count = Len(texts)
<1> DEFINE texts == Meant[workflow]
<1>1. texts \in Seq(Words \X Words)
  BY MeantTexts
<1>2. at \in 1 .. Len(Scripts[workflow]) /\ Len(Scripts[workflow]) \in Nat /\ Fits(workflow, at)
  BY NowStep, ScriptsFit DEF WorkflowTypes
<1>3. StepFits(Now) /\ Count \in 0 .. Len(texts)
  BY <1>2 DEF Fits, Now, Count
<1>4. ASSUME Now.do = "type"
      PROVE  ~IsLast /\ Now.on = "must" /\ Count \in 0 .. Len(texts) - 1 /\ texts[Count + 1] = <<Now.what, Goal>>
  <2>1. ~IsLast /\ Now.on = "must" /\ Count < Len(texts) /\ texts[Count + 1][1] = Now.what
    BY <1>2, <1>4 DEF Fits, Now, Count, IsLast
  <2>2. Count \in 0 .. Len(texts) - 1 /\ texts[Count + 1] \in Words \X Words
    BY <1>1, <1>3, <2>1
  <2>3. texts[Count + 1] = <<Now.what, Goal>>
    BY <2>1, <2>2 DEF Goal
  <2>4. QED  BY <2>1, <2>2, <2>3
<1>5. ~IsLast => /\ Typed(workflow, at + 1) = IF Now.do = "type" THEN Count + 1 ELSE Count
                 /\ Leads(Now, Scripts[workflow][at + 1], Goal)
  BY <1>2 DEF Fits, Now, Count, Goal, IsLast
<1>6. IsLast \/ Now.on = "else" => Count = Len(texts)
  BY <1>2 DEF Fits, Now, Count, IsLast
<1>7. QED  BY <1>1, <1>3, <1>4, <1>5, <1>6

(* What a step leaves behind. *)
After ==
    /\ landed' = SubSeq(Meant[workflow], 1, IF Now.do = "type" THEN Count + 1 ELSE Count)
    /\ Now.do = "confirm" => focus' = Now.what
    /\ Now.on # "else" => /\ Now.do = "click" => focus' = Now.what
                          /\ Now.do = "hotkey" /\ Now.what = "A" => focus' = Goal
                          /\ Now.do = "hotkey" /\ Now.what = "L" => focus' = "address"

(* A step that leaves this behind makes the next ready. *)
LEMMA NextReady ==
  ASSUME WorkflowTypes, Running, workflow \in Texts, workflow' = workflow, Proceeds, After
  PROVE  Ready'
<1> DEFINE next == Scripts[workflow][at + 1]
<1>1. ~IsLast /\ Now' = next
  <2>1. at < Len(Scripts[workflow]) /\ at' = at + 1
    BY DEF Proceeds
  <2>2. at # Len(Scripts[workflow])
    BY <2>1, NowStep
  <2>3. QED  BY <2>1, <2>2 DEF IsLast, Now
<1>2. /\ Count' = IF Now.do = "type" THEN Count + 1 ELSE Count
      /\ Leads(Now, next, Goal)
  BY <1>1, FitsNow DEF Count, Proceeds
<1>3. Arrived(Count)'
  BY <1>2 DEF Arrived, After
<1> HIDE DEF next
<1>4. StepFits(Now)
  BY FitsNow
<1>5. ASSUME Now'.do = "type" \/ (Now'.do = "hotkey" /\ Now'.what = "A")
      PROVE  focus' = Goal'
  <2>1. /\ Now.on # "else"
        /\ \/ Now.do = "click" /\ Now.what = Goal
           \/ Now.do = "hotkey" /\ Now.what = "A"
           \/ Now.do = "hotkey" /\ Now.what = "L" /\ Goal = "address"
    BY <1>1, <1>2, <1>5 DEF Leads
  <2>2. focus' = Goal /\ Now.do # "type"
    BY <2>1 DEF After
  <2>3. QED  BY <1>2, <2>2 DEF Goal
<1>6. ASSUME Now'.do = "hotkey" /\ Now'.what = "L"  PROVE focus' # "elsewhere"
  <2>1. Now.do = "confirm"
    BY <1>1, <1>2, <1>6 DEF Leads
  <2>2. QED  BY <1>4, <2>1 DEF After, StepFits
<1>7. QED  BY <1>3, <1>5, <1>6 DEF Ready

(* At the end of the workflow every text has arrived. *)
LEMMA LastOne ==
  ASSUME WorkflowTypes, Running, workflow \in Texts, IsLast \/ Now.on = "else", After
  PROVE  landed' = Meant[workflow]
<1>1. Meant[workflow] \in Seq(Words \X Words) /\ Count = Len(Meant[workflow]) /\ Now.do # "type"
  BY FitsNow
<1>2. QED  BY <1>1, AllTexts DEF After

(* A step that sends nothing makes the next ready, fails the workflow, or
   was a slip.                                                           *)
LEMMA TextQuiet ==
  ASSUME WorkflowTypes, TextInv, Quietly
  PROVE  TextInv'
<1>1. SUFFICES ASSUME clean', workflow' \in Texts
               PROVE  /\ phase' = "step" => Ready'
                      /\ phase' = "send" => Sending'
                      /\ phase' = "done" /\ result' = "success" => landed' = Meant[workflow]'
  BY DEF TextInv
<1>2. /\ phase = "step" /\ Running /\ workflow' = workflow /\ workflow \in Texts
      /\ Ends("success") \/ Ends("failure") \/ Proceeds
      /\ clean' \in {clean, FALSE} /\ (~(Halt \/ Raise) => UNCHANGED <<landed, clean>>)
  BY <1>1, QuietStep
<1>3. clean /\ Ready
  BY <1>1, <1>2 DEF TextInv
<1>4. StepFits(Now) /\ (Now.do = "type" => Now.on = "must")
  BY <1>2, FitsNow
<1>5. landed' = landed
  <2>1. CASE Halt \/ Raise
    BY <1>1, <2>1 DEF Halt, Raise, Slip, Soil
  <2>2. QED  BY <1>2, <2>1
<1>6. CASE Confirmed \/ FoundOnly
  <2>1. Now.do \in {"confirm", "none"} /\ (Now.do = "confirm" => focus' = Now.what)
    BY <1>6 DEF Confirmed, FoundOnly
  <2>2. After
    BY <1>3, <1>5, <2>1 DEF After, Ready, Arrived
  <2>3. (Ends("success") /\ IsLast) \/ Proceeds
    <3>1. Advance
      BY <1>6 DEF Confirmed, FoundOnly
    <3>2. QED  BY <1>2, <3>1, Outcomes
  <2>4. QED  BY <1>2, <2>2, <2>3, NextReady, LastOne DEF Ends, Proceeds
<1>7. CASE ~(Confirmed \/ FoundOnly)
  <2>1. Fail
    BY <1>4, <1>7 DEF Quietly, NotFound, NotConfirmed, Verify, Halt, Raise, StepFits
  <2>2. Now.on # "try"
    <3>1. CASE NotFound
      BY <1>4, <3>1 DEF NotFound, StepFits
    <3>2. CASE NotConfirmed
      BY <1>4, <3>2 DEF NotConfirmed, StepFits
    <3>3. CASE Halt \/ Raise
      BY <1>1, <3>3 DEF Halt, Raise, Slip, Soil
    <3>4. CASE Verify
      BY <1>4, <3>4 DEF Verify, StepFits
    <3>5. QED  BY <1>7, <3>1, <3>2, <3>3, <3>4 DEF Quietly
  <2>3. Ends("failure") \/ (Ends("success") /\ IsLast /\ Now.on # "must") \/ (Proceeds /\ Now.on # "must")
    BY <1>2, <2>1, Outcomes
  <2>4. CASE Ends("failure")
    BY <2>4 DEF Ends
  <2>5. CASE Now.on # "must"
    <3>1. Now.on = "else"
      BY <1>2, <2>2, <2>5, NowStep DEF Steps
    <3>2. Now.do # "confirm" /\ Now.do # "type"
      BY <1>4, <2>5 DEF StepFits
    <3>3. After
      BY <1>3, <1>5, <3>1, <3>2 DEF After, Ready, Arrived
    <3>4. QED  BY <1>2, <2>3, <2>5, <3>3, NextReady, LastOne DEF Ends, Proceeds
  <2>6. QED  BY <2>3, <2>4, <2>5
<1>8. QED  BY <1>6, <1>7

(* When its last event is sent an action has done what the next step needs.*)
LEMMA TextSent ==
  ASSUME WorkflowTypes, TextInv, Sent
  PROVE  TextInv'
<1>1. SUFFICES ASSUME clean', workflow' \in Texts
               PROVE  /\ phase' = "step" => Ready'
                      /\ phase' = "send" => Sending'
                      /\ phase' = "done" /\ result' = "success" => landed' = Meant[workflow]'
  BY DEF TextInv
<1>2. /\ phase = "send" /\ Running /\ events = <<>>
      /\ (Ends("success") /\ (IsLast \/ Now.on = "else")) \/ (Proceeds /\ Now.on # "else")
      /\ UNCHANGED <<workflow, focus, landed, clean>> /\ workflow \in Texts
  BY <1>1, SentStep DEF deskVars, history
<1>3. Sending
  BY <1>1, <1>2 DEF TextInv
<1>4. Now.do \in {"click", "press", "hotkey", "type"}
  BY <1>2, FitsNow DEF WorkflowTypes, Acts, StepFits
<1>5. After
  <2>1. CASE Now.do = "click"
    BY <1>2, <1>3, <2>1 DEF After, Sending, Clicking, Arrived
  <2>2. CASE Now.do = "press"
    BY <1>2, <1>3, <2>2 DEF After, Sending, Pressing, Arrived
  <2>3. CASE Now.do = "hotkey"
    BY <1>2, <1>3, <2>3 DEF After, Sending, Selecting, Addressing, Arrived, Chorded, Halfway
  <2>4. CASE Now.do = "type"
    <3>1. <<SetClipboard(Now.what)>> \o Chorded("V") # <<>>
      BY Joined DEF Chorded
    <3>2. Typing
      BY <1>3, <2>4 DEF Sending
    <3>3. Arrived(Count + 1)
      BY <1>2, <3>1, <3>2 DEF Typing, Chorded, Halfway
    <3>4. QED  BY <1>2, <2>4, <3>3 DEF After, Arrived
  <2>5. QED  BY <1>4, <2>1, <2>2, <2>3, <2>4
<1>6. QED  BY <1>2, <1>5, NextReady, LastOne DEF Ends, Proceeds

(* An action starts with its whole plan. *)
LEMMA TextDispatch ==
  ASSUME WorkflowTypes, TextInv, Dispatch
  PROVE  TextInv'
<1>1. SUFFICES ASSUME clean', workflow' \in Texts
               PROVE  Sending'
  BY DispatchStep DEF TextInv
<1>2. /\ phase = "step" /\ Running /\ Acts /\ events' \in EventsOf(Now)
      /\ UNCHANGED <<workflow, at, held, focus, clipboard, landed, clean>> /\ workflow \in Texts
  BY <1>1, DispatchStep DEF deskVars, history
<1>3. Ready
  BY <1>1, <1>2 DEF TextInv
<1>4. Now' = Now /\ Count' = Count /\ Goal' = Goal /\ (\A n : Arrived(n)' <=> Arrived(n))
  BY <1>2 DEF Now, Count, Goal, Arrived
<1>5. Arrived(Count)'
  BY <1>2, <1>3, <1>4 DEF Ready, Arrived
<1>6. StepFits(Now) /\ Now.do \in {"click", "press", "hotkey", "type"}
  BY <1>2, FitsNow DEF Acts, StepFits
<1>7. CASE Now.do = "click"
  <2>1. events' = <<Move, Down("left"), Up("left")>>
    BY <1>2, <1>7 DEF EventsOf, Click
  <2>2. QED  BY <1>4, <1>5, <1>7, <2>1 DEF Sending, Clicking
<1>8. CASE Now.do = "press"
  <2>1. events' = <<Down("ENTER"), Up("ENTER")>>
    BY <1>2, <1>6, <1>8, WorkflowAssumption DEF EventsOf, Press, StepFits
  <2>2. QED  BY <1>4, <1>5, <1>8, <2>1 DEF Sending, Pressing
<1>9. CASE Now.do = "hotkey"
  <2>1. Now.what \in {"A", "L"}
    BY <1>6, <1>9 DEF StepFits
  <2>2. events' = Chorded(Now.what)
    BY <1>2, <1>9, <2>1, Combination DEF EventsOf, Chorded
  <2>3. CASE Now.what = "A"
    <3>1. focus' = Goal'
      BY <1>2, <1>3, <1>4, <1>9, <2>3 DEF Ready
    <3>2. Selecting'
      BY <1>5, <2>2, <2>3, <3>1 DEF Selecting
    <3>3. QED  BY <1>4, <1>9, <2>3, <3>2 DEF Sending
  <2>4. CASE Now.what = "L"
    <3>1. focus' # "elsewhere"
      BY <1>2, <1>3, <1>9, <2>4 DEF Ready
    <3>2. Addressing'
      BY <1>5, <2>2, <2>4, <3>1 DEF Addressing
    <3>3. QED  BY <1>4, <1>9, <2>4, <3>2 DEF Sending
  <2>5. QED  BY <2>1, <2>3, <2>4
<1>10. CASE Now.do = "type"
  <2>1. PICK how \in {"keys", "shift", "paste"} : events' = TypeText(Now.what, how)
    BY <1>2, <1>10 DEF EventsOf
  <2>2. events' \in {<<Char(Now.what)>>, <<Down("SHIFT"), Char(Now.what), Up("SHIFT")>>,
                    <<SetClipboard(Now.what)>> \o Chorded("V")}
    BY <2>1, Combination DEF TypeText, TypeKeys, Paste, Chorded
  <2>3. focus' = Goal'
    BY <1>2, <1>3, <1>4, <1>10 DEF Ready
  <2>4. Typing'
    BY <1>4, <1>5, <2>2, <2>3 DEF Typing
  <2>5. QED  BY <1>4, <1>10, <2>4 DEF Sending
<1>11. QED  BY <1>6, <1>7, <1>8, <1>9, <1>10

(* What an event does. *)
LEMMA EventEffect ==
  ASSUME WorkflowTypes, Send, clean'
  PROVE  /\ clean /\ UNCHANGED <<workflow, at, phase, result>>
         /\ events' = Tail(events) /\ Event = Head(events)
         /\ \A k : Event = Down(k) =>
              /\ held' = held \cup {k} /\ clipboard' = clipboard
              /\ k \notin {"L", "V"} => UNCHANGED <<focus, landed>>
              /\ k = "L" /\ "CTRL" \in held /\ focus # "elsewhere" =>
                   focus' = "address" /\ landed' = landed
              /\ k = "V" /\ "CTRL" \in held =>
                   focus' = focus /\ landed' = Append(landed, <<clipboard, focus>>)
         /\ \A k : Event = Up(k) =>
              /\ UNCHANGED <<clipboard, landed>>
              /\ Now.do = "click" => focus' = Now.what
              /\ Now.do \notin {"click", "open"} => focus' = focus
         /\ Event = Move => UNCHANGED <<clipboard, landed, focus>>
         /\ \A t : Event = Char(t) /\ AsText =>
              UNCHANGED <<clipboard, focus>> /\ landed' = Append(landed, <<t, focus>>)
         /\ \A t : Event = SetClipboard(t) => UNCHANGED <<landed, focus>> /\ clipboard' = t
<1>1. clean /\ UNCHANGED <<workflow, at, phase, result>> /\ events' = Tail(events) /\ Event = Head(events)
  BY SendStep DEF Event, WorkflowTypes
<1>2. ASSUME NEW k, Event = Down(k)
      PROVE  /\ held' = held \cup {k} /\ clipboard' = clipboard
             /\ k \notin {"L", "V"} => UNCHANGED <<focus, landed>>
             /\ k = "L" /\ "CTRL" \in held /\ focus # "elsewhere" =>
                  focus' = "address" /\ landed' = landed
             /\ k = "V" /\ "CTRL" \in held =>
                  focus' = focus /\ landed' = Append(landed, <<clipboard, focus>>)
  <2>1. Event.do = "down" /\ Event.key = k
    BY <1>2 DEF Down
  <2>2. PressKey
    BY <2>1 DEF Send, ReleaseKey, SendChar, MovePointer, CopyText, Move
  <2>3. {"L", "V"} \subseteq Key
    BY WorkflowAssumption
  <2>4. QED  BY <1>1, <2>1, <2>2, <2>3 DEF PressKey, Chord, Plain, Arrive
<1>3. ASSUME NEW k, Event = Up(k)
      PROVE  /\ UNCHANGED <<clipboard, landed>>
             /\ Now.do = "click" => focus' = Now.what
             /\ Now.do \notin {"click", "open"} => focus' = focus
  <2>1. Event.do = "up" /\ Event.key = k
    BY <1>3 DEF Up
  <2>2. ReleaseKey
    BY <2>1 DEF Send, PressKey, SendChar, MovePointer, CopyText
  <2>3. QED  BY <2>2 DEF ReleaseKey
<1>4. ASSUME Event = Move  PROVE UNCHANGED <<clipboard, landed, focus>>
  <2>1. MovePointer
    BY <1>4 DEF Move, Send, PressKey, ReleaseKey, SendChar, MovePointer, CopyText
  <2>2. QED  BY <2>1 DEF MovePointer, Plain
<1>5. ASSUME NEW t, Event = Char(t), AsText
      PROVE  UNCHANGED <<clipboard, focus>> /\ landed' = Append(landed, <<t, focus>>)
  <2>1. Event.do = "char" /\ Event.key = t
    BY <1>5 DEF Char
  <2>2. SendChar
    BY <2>1 DEF Send, PressKey, ReleaseKey, MovePointer, CopyText
  <2>3. QED  BY <1>1, <1>5, <2>1, <2>2 DEF SendChar, Arrive
<1>6. ASSUME NEW t, Event = SetClipboard(t)
      PROVE  UNCHANGED <<landed, focus>> /\ clipboard' = t
  <2>1. Event.do = "copy" /\ Event.key = t
    BY <1>6 DEF SetClipboard
  <2>2. CopyText
    BY <2>1 DEF Send, PressKey, ReleaseKey, SendChar, MovePointer
  <2>3. QED  BY <2>1, <2>2 DEF CopyText, Soil
<1>7. QED  BY <1>1, <1>2, <1>3, <1>4, <1>5, <1>6

(* Each event brings the action on: a text arrives once, as itself, at what
   it was meant for.                                                     *)
LEMMA TextSend ==
  ASSUME WorkflowTypes, KeysInv, TextInv, Send
  PROVE  TextInv'
<1>1. SUFFICES ASSUME clean', workflow' \in Texts
               PROVE  Sending'
  BY SendStep DEF TextInv
<1>2. /\ phase = "send" /\ Running /\ events # <<>> /\ events \in Seq(Events) /\ Event = events[1] /\ ~cut
      /\ clean /\ UNCHANGED <<workflow, at>> /\ events' = Tail(events) /\ Event = Head(events)
      /\ workflow \in Texts
  BY <1>1, SendStep, EventEffect
<1>3. Sending
  BY <1>2 DEF TextInv
<1>4. Now' = Now /\ Count' = Count /\ Goal' = Goal
  BY <1>2 DEF Now, Count, Goal
<1>5. /\ \A n : Arrived(n)' <=> landed' = SubSeq(Meant[workflow], 1, n)
      /\ \A n : Arrived(n) <=> landed = SubSeq(Meant[workflow], 1, n)
  BY <1>2 DEF Arrived
<1>6. Arrived(Count) /\ landed' = landed => Arrived(Count)'
  BY <1>4, <1>5
<1>7. Arrived(Count + 1) /\ landed' = landed => Arrived(Count + 1)'
  BY <1>4, <1>5
<1>8. /\ StepFits(Now) /\ Now.do \in {"click", "press", "hotkey", "type"}
      /\ Now.do = "type" => /\ Meant[workflow] \in Seq(Words \X Words)
                            /\ Count \in 0 .. Len(Meant[workflow]) - 1
                            /\ Meant[workflow][Count + 1] = <<Now.what, Goal>>
  BY <1>2, FitsNow DEF WorkflowTypes, Acts, StepFits
<1>9. /\ \A a : events = <<a>> => Event = a /\ events' = <<>>
      /\ \A a, b : events = <<a, b>> => Event = a /\ events' = <<b>>
      /\ \A a, b, c : events = <<a, b, c>> => Event = a /\ events' = <<b, c>>
      /\ \A a, b, c, d : events = <<a, b, c, d>> => Event = a /\ events' = <<b, c, d>>
      /\ \A a, b, c, d, e : events = <<a, b, c, d, e>> => Event = a /\ events' = <<b, c, d, e>>
  <2>1. events' = Tail(events) /\ Event = Head(events)
    BY <1>2
  <2>2. ASSUME NEW a, events = <<a>>  PROVE Event = a /\ events' = <<>>
    BY <2>1, <2>2, TailTuples
  <2>3. ASSUME NEW a, NEW b, events = <<a, b>>  PROVE Event = a /\ events' = <<b>>
    BY <2>1, <2>3, TailTuples
  <2>4. ASSUME NEW a, NEW b, NEW c, events = <<a, b, c>>  PROVE Event = a /\ events' = <<b, c>>
    BY <2>1, <2>4, TailTuples
  <2>5. ASSUME NEW a, NEW b, NEW c, NEW d, events = <<a, b, c, d>>  PROVE Event = a /\ events' = <<b, c, d>>
    BY <2>1, <2>5, TailTuples
  <2>6. ASSUME NEW a, NEW b, NEW c, NEW d, NEW e, events = <<a, b, c, d, e>>  PROVE Event = a /\ events' = <<b, c, d, e>>
    BY <2>1, <2>6, TailTuples
  <2>7. QED  BY <2>2, <2>3, <2>4, <2>5, <2>6
<1>10. CASE Now.do = "click"
  <2>1. Arrived(Count) /\ events \in {<<Move, Down("left"), Up("left")>>, <<Down("left"), Up("left")>>, <<Up("left")>>}
    BY <1>2, <1>3, <1>10 DEF Sending, Clicking
  <2>2. landed' = landed /\ (events = <<Up("left")>> => focus' = Now.what)
    BY <1>9, <1>1, <1>10, <2>1, EventEffect
  <2>3. events' \in {<<Down("left"), Up("left")>>, <<Up("left")>>} \/ (events = <<Up("left")>> /\ events' = <<>>)
    BY <1>9, <2>1
  <2>4. Clicking'
    BY <1>4, <1>6, <2>1, <2>2, <2>3 DEF Clicking
  <2>5. QED  BY <1>4, <1>10, <2>4 DEF Sending
<1>11. CASE Now.do = "press"
  <2>1. Arrived(Count) /\ events \in {<<Down("ENTER"), Up("ENTER")>>, <<Up("ENTER")>>}
    BY <1>2, <1>3, <1>11 DEF Sending, Pressing
  <2>2. landed' = landed
    BY <1>9, <1>1, <2>1, EventEffect
  <2>3. events' \in {<<Up("ENTER")>>, <<>>}
    BY <1>9, <2>1
  <2>4. Pressing'
    BY <1>6, <2>1, <2>2, <2>3 DEF Pressing
  <2>5. QED  BY <1>4, <1>11, <2>4 DEF Sending
<1>12. CASE Now.do = "hotkey" /\ Now.what = "A"
  <2>1. Arrived(Count) /\ focus = Goal
        /\ events \in {Chorded("A"), Halfway("A"), <<Up("A"), Up("CTRL")>>, <<Up("CTRL")>>}
    BY <1>2, <1>3, <1>12 DEF Sending, Selecting, Released
  <2>2. landed' = landed /\ focus' = focus
    BY <1>9, <1>1, <1>12, <2>1, EventEffect DEF Chorded, Halfway
  <2>3. events' \in {Halfway("A"), <<Up("A"), Up("CTRL")>>, <<Up("CTRL")>>, <<>>}
    BY <1>9, <2>1 DEF Chorded, Halfway
  <2>4. Selecting'
    BY <1>4, <1>6, <2>1, <2>2, <2>3 DEF Selecting, Released
  <2>5. QED  BY <1>4, <1>12, <2>4 DEF Sending
<1>13. CASE Now.do = "hotkey" /\ Now.what = "L"
  <2>1. /\ Arrived(Count)
        /\ \/ events = Chorded("L") /\ focus # "elsewhere"
           \/ events = Halfway("L") /\ focus # "elsewhere" /\ "CTRL" \in held
           \/ events \in {<<Up("L"), Up("CTRL")>>, <<Up("CTRL")>>} /\ focus = "address"
    BY <1>2, <1>3, <1>13 DEF Sending, Addressing, Released
  <2> SUFFICES Addressing'
    BY <1>4, <1>13 DEF Sending
  <2>2. CASE events = Chorded("L") /\ focus # "elsewhere"
    <3>1. Event = Down("CTRL") /\ events' = Halfway("L")
      BY <1>9, <2>2 DEF Chorded, Halfway
    <3>2. landed' = landed /\ focus' = focus /\ "CTRL" \in held'
      BY <1>1, <3>1, EventEffect
    <3>3. QED  BY <1>6, <2>1, <2>2, <3>1, <3>2 DEF Addressing
  <2>3. CASE events = Halfway("L") /\ focus # "elsewhere" /\ "CTRL" \in held
    <3>1. Event = Down("L") /\ events' = <<Up("L"), Up("CTRL")>>
      BY <1>9, <2>3 DEF Halfway
    <3>2. landed' = landed /\ focus' = "address"
      BY <1>1, <2>3, <3>1, EventEffect
    <3>3. QED  BY <1>6, <2>1, <3>1, <3>2 DEF Addressing, Released
  <2>4. CASE events \in {<<Up("L"), Up("CTRL")>>, <<Up("CTRL")>>} /\ focus = "address"
    <3>1. landed' = landed /\ focus' = focus
      BY <1>9, <1>1, <1>13, <2>4, EventEffect
    <3>2. events' \in {<<Up("CTRL")>>, <<>>}
      BY <1>9, <2>4
    <3>3. QED  BY <1>6, <2>1, <2>4, <3>1, <3>2 DEF Addressing, Released
  <2>5. QED  BY <2>1, <2>2, <2>3, <2>4
<1>14. CASE Now.do = "type"
  <2>1. Typing
    BY <1>3, <1>14 DEF Sending
  <2>2. SUFFICES Typing'
    BY <1>4, <1>14 DEF Sending
  <2>3. ASSUME Arrived(Count), landed' = Append(landed, <<Now.what, focus>>)  PROVE Arrived(Count + 1)'
    <3>1. landed' = SubSeq(Meant[workflow], 1, Count + 1)
      BY <1>5, <1>8, <1>14, <2>1, <2>3, NextText DEF Typing
    <3>2. QED  BY <1>4, <1>5, <3>1
  <2>4. Event.do = "char" => AsText
    <3>1. Event.do = "char" => held \ Stray \subseteq {"SHIFT"}
      BY <1>2, SettledStep DEF KeysInv
    <3>2. QED  BY <3>1 DEF Stray, AsText
  <2>5. CASE Arrived(Count) /\ events \in {<<Char(Now.what)>>, <<Char(Now.what), Up("SHIFT")>>}
    <3>1. Event = Char(Now.what) /\ events' \in {<<>>, <<Up("SHIFT")>>}
      BY <1>9, <2>5
    <3>2. AsText
      BY <2>4, <3>1 DEF Char
    <3>3. landed' = Append(landed, <<Now.what, focus>>) /\ focus' = focus
      BY <1>1, <3>1, <3>2, EventEffect
    <3>4. QED  BY <1>4, <2>1, <2>3, <2>5, <3>1, <3>3 DEF Typing
  <2>6. CASE Arrived(Count) /\ events = <<Down("SHIFT"), Char(Now.what), Up("SHIFT")>>
    <3>1. Event = Down("SHIFT") /\ events' = <<Char(Now.what), Up("SHIFT")>>
      BY <1>9, <2>6
    <3>2. landed' = landed /\ focus' = focus
      BY <1>1, <3>1, EventEffect
    <3>3. QED  BY <1>4, <1>6, <2>1, <2>6, <3>1, <3>2 DEF Typing
  <2>7. CASE Arrived(Count) /\ events = <<SetClipboard(Now.what)>> \o Chorded("V")
    <3>1. Event = SetClipboard(Now.what) /\ events' = Chorded("V")
      BY <1>9, <2>7, Joined DEF Chorded
    <3>2. landed' = landed /\ focus' = focus /\ clipboard' = Now.what
      BY <1>1, <3>1, EventEffect
    <3>3. QED  BY <1>4, <1>6, <2>1, <2>7, <3>1, <3>2 DEF Typing
  <2>8. CASE Arrived(Count) /\ events = Chorded("V") /\ clipboard = Now.what
    <3>1. Event = Down("CTRL") /\ events' = Halfway("V")
      BY <1>9, <2>8 DEF Chorded, Halfway
    <3>2. landed' = landed /\ focus' = focus /\ clipboard' = clipboard /\ "CTRL" \in held'
      BY <1>1, <3>1, EventEffect
    <3>3. QED  BY <1>4, <1>6, <2>1, <2>8, <3>1, <3>2 DEF Typing
  <2>9. CASE Arrived(Count) /\ events = Halfway("V") /\ clipboard = Now.what /\ "CTRL" \in held
    <3>1. Event = Down("V") /\ events' = <<Up("V"), Up("CTRL")>>
      BY <1>9, <2>9 DEF Halfway
    <3>2. focus' = focus /\ landed' = Append(landed, <<Now.what, focus>>)
      BY <1>1, <2>9, <3>1, EventEffect
    <3>3. QED  BY <1>4, <2>1, <2>3, <2>9, <3>1, <3>2 DEF Typing, Released
  <2>10. CASE Arrived(Count + 1) /\ events \in {<<Up("SHIFT")>>, <<Up("V"), Up("CTRL")>>, <<Up("CTRL")>>}
    <3>1. events' \in {<<Up("CTRL")>>, <<>>}
      BY <1>9, <2>10
    <3>2. landed' = landed /\ focus' = focus
      BY <1>9, <1>1, <1>14, <2>10, EventEffect
    <3>3. QED  BY <1>4, <1>7, <2>1, <2>10, <3>1, <3>2 DEF Typing, Released
  <2>11. QED
    BY <1>2, <2>1, <2>5, <2>6, <2>7, <2>8, <2>9, <2>10 DEF Typing, Released
<1>15. QED  BY <1>8, <1>10, <1>11, <1>12, <1>13, <1>14 DEF StepFits

(* No first step needs the keyboard. *)
LEMMA TextBegin ==
  ASSUME WorkflowTypes, NEW w \in DOMAIN Scripts, Begin(w)
  PROVE  TextInv'
<1>1. SUFFICES ASSUME w \in Texts  PROVE Ready'
  BY DEF TextInv, Begin
<1>2. at' = 1 /\ workflow' = w /\ landed' = <<>>
  BY DEF Begin, WorkflowTypes, history
<1>3. Count' = 0 /\ Now' = Scripts[w][1]
  BY <1>2 DEF Count, Typed, Now
<1>4. Arrived(Count)'
  BY <1>1, <1>2, <1>3, MeantTexts, AllTexts DEF Arrived
<1>5. Soft(Scripts[w][1])
  <2>1. Navigate[1].do = "confirm" /\ ChooseFile[1].do = "click"
    BY NavigateSteps, ChooseSteps DEF Must, Step, Find
  <2>2. SubmitForm[1].do = "confirm"
    BY <2>1, SubmitSteps
  <2>3. SubmitOpenForm[1].do \in {"none", "press"}
    <3>1. CASE Len(Fields) = 0
      BY <3>1, OpenFormSteps DEF Must, Step
    <3>2. CASE Len(Fields) # 0
      <4>1. 0 \in 0 .. Len(Fields) - 1 /\ 1 \in 1 .. 4 * Len(Fields)
        BY <3>2, WorkflowAssumption
      <4>2. FillForm[4 * 0 + 1] = Find("none", "must", Fields[0 + 1])
        BY <4>1, FormSteps
      <4>3. SubmitOpenForm[1] = FillForm[1]
        BY <4>1, OpenFormSteps
      <4>4. QED  BY <4>2, <4>3 DEF Find
    <3>3. QED  BY <3>1, <3>2
  <2>4. QED  BY <1>1, <2>1, <2>2, <2>3, ScriptSteps DEF Soft, Texts
<1>6. QED  BY <1>3, <1>4, <1>5 DEF Ready, Soft

-----------------------------------------------------------------------------
(* Every step keeps the texts in place or is known to have disturbed them.*)
LEMMA TextNext == WorkflowTypes /\ KeysInv /\ TextInv /\ [WorkflowNext]_workflowVars => TextInv'
<1> SUFFICES ASSUME WorkflowTypes, KeysInv, TextInv, [WorkflowNext]_workflowVars  PROVE TextInv'
  OBVIOUS
<1>1. ASSUME NEW w \in DOMAIN Scripts, Begin(w)  PROVE TextInv'
  BY <1>1, TextBegin
<1>2. CASE Quietly
  BY <1>2, TextQuiet
<1>3. CASE Dispatch
  BY <1>3, TextDispatch
<1>4. CASE Send
  BY <1>4, TextSend
<1>5. CASE Sent
  BY <1>5, TextSent
<1>6. CASE Return \/ Kill \/ BreakOff
  <2>1. CASE BreakOff
    <3>1. Running /\ Now.do = "drag" /\ workflow' = workflow
      BY <2>1, BreakOffStep
    <3>2. workflow \notin Texts
      BY <3>1, FitsNow DEF StepFits
    <3>3. QED  BY <3>1, <3>2 DEF TextInv
  <2>2. CASE Return \/ Kill
    <3>1. workflow' = "none"
      BY <2>2 DEF Return, Kill
    <3>2. QED  BY <3>1 DEF TextInv, Texts
  <2>3. QED  BY <1>6, <2>1, <2>2
<1>7. CASE Release \/ UNCHANGED workflowVars
  <2>1. CASE Release
    <3>1. phase' = "idle"
      BY <2>1 DEF Release, runVars
    <3>2. QED  BY <3>1 DEF TextInv
  <2>2. CASE UNCHANGED workflowVars
    BY <2>2 DEF workflowVars, runVars, deskVars, history, TextInv, Ready, Sending, Clicking, Pressing,
       Selecting, Addressing, Typing, Arrived, Goal, Count, Now
  <2>3. QED  BY <1>7, <2>1, <2>2
<1>8. CASE World
  <2>1. CASE Distract \/ CopyElsewhere
    BY <2>1 DEF Distract, CopyElsewhere, Soil, TextInv
  <2>2. CASE StopChanges
    BY <2>2 DEF StopChanges, runVars, deskVars, history, TextInv, Ready, Sending, Clicking, Pressing,
       Selecting, Addressing, Typing, Arrived, Goal, Count, Now
  <2>3. QED  BY <1>8, <2>1, <2>2 DEF World
<1>9. QED
  BY <1>1, <1>2, <1>3, <1>4, <1>5, <1>6, <1>7, <1>8 DEF WorkflowNext, Run, Quietly

(* What every reachable state of a workflow is like.                       *)
WorkflowInv == WorkflowTypes /\ KeysInv /\ FileInv /\ TextInv

(* It holds at the start. *)
LEMMA InvInit == WorkflowInit => WorkflowInv
<1> SUFFICES ASSUME WorkflowInit  PROVE WorkflowInv
  OBVIOUS
<1>1. phase = "idle" /\ result = "none" /\ events = <<>> /\ held = {} /\ ~cut /\ ~garbled
      /\ landed = <<>>
  BY DEF WorkflowInit
<1>2. WorkflowTypes
  <2>1. events \in Seq(Events)
    BY <1>1
  <2>2. clean \in BOOLEAN /\ garbled \in BOOLEAN /\ broke \in BOOLEAN /\ cut \in BOOLEAN
    BY DEF WorkflowInit
  <2>3. phase # "send" /\ ~Running
    BY <1>1 DEF Running
  <2>4. QED  BY <1>1, <2>1, <2>2, <2>3 DEF WorkflowTypes
<1>3. QED  BY <1>1, <1>2 DEF WorkflowInv, KeysInv, FileInv, TextInv

(* Every step keeps it. *)
LEMMA InvNext == WorkflowInv /\ [WorkflowNext]_workflowVars => WorkflowInv'
  BY TypesNext, KeysNext, FileNext, TextNext DEF WorkflowInv

(* It holds of every reachable state. *)
LEMMA InvHolds == WorkflowSpec => []WorkflowInv
<1>1. QED  BY InvInit, InvNext, PTL DEF WorkflowSpec

(* For any keys and fields: unless a process was ended in the middle of an
   action, nothing is down between two actions but the button of a drag that
   broke off, and no text arrives as a shortcut (hotkey, type_text, drag,
   stroke and the executor's send).                                      *)
THEOREM KeysAreBalanced == WorkflowSpec => []KeysBalanced
<1>1. WorkflowInv => KeysBalanced
  BY DEF WorkflowInv, KeysInv, KeysBalanced, Stray
<1>2. QED  BY <1>1, InvHolds, PTL

(* For any form, a workflow that reports success has done it: the file holds
   the content, or each text arrived, in order, in the control it was meant
   for, unless somebody interfered or a step nobody looks at failed
   (navigate, submit_form, choose_file, create_desktop_text_file).       *)
THEOREM ReportsAreHonest == WorkflowSpec => []ReportHonest
<1>1. WorkflowInv => ReportHonest
  <2>1. DOMAIN Meant = Texts
    BY MeantTexts
  <2>2. QED  BY <2>1 DEF WorkflowInv, FileInv, TextInv, ReportHonest
<1>2. QED  BY <1>1, InvHolds, PTL

-----------------------------------------------------------------------------
(* The halt channel. *)

(* No stop stands at the start. *)
LEMMA InitHeeded == Init => HeededInv
  BY EmergencyStopAssumption DEF Init, HeededInv, TypeOK, NothingStandsInClear, StandingIsVisible,
         DurableIsEverywhere, AnswerPending, BoundMeetsStop, Clearing

(* The look at the flag, shared by is_stopped(), check() and the pause     *)
(* loop: under a standing stop it answers at once or the file is there.    *)
LEMMA ReadFlagHeeded ==
  ASSUME HeededInv, NEW t \in Threads, pc[t] \in {"idle", "pause"}, ReadFlag(t),
         checking' \subseteq Threads,
         \/ passed' = passed \ {t}
         \/ pc[t] = "pause" /\ passed' = passed
  PROVE  HeededInv'
<1> USE EmergencyStopAssumption DEF HeededInv, ReadFlag, Goto, estopVars
<1>1. TypeOK'
  BY DEF TypeOK
<1>2. NothingStandsInClear'
  <2>1. Clearing' => Clearing  BY DEF Clearing, TypeOK
  <2>2. Clearing => t \notin bound' /\ bound' = {}
    BY DEF NothingStandsInClear
  <2>3. QED  BY <2>1, <2>2 DEF NothingStandsInClear
<1>3. StandingIsVisible' /\ DurableIsEverywhere'
  BY DEF StandingIsVisible, DurableIsEverywhere
<1>4. AnswerPending'
  BY DEF AnswerPending, TypeOK
<1>5. BoundMeetsStop'
  <2> SUFFICES ASSUME NEW u \in bound'
               PROVE  /\ ProcOf[u] \in standing' /\ u \notin passed'
                      /\ pc'[u] # "pause" /\ (pc'[u] = "probe" => sentinel')
    BY DEF BoundMeetsStop
  <2>1. CASE u = t
    BY <2>1 DEF StandingIsVisible, AnswerPending, TypeOK
  <2>2. CASE u # t
    BY <2>2 DEF BoundMeetsStop, TypeOK
  <2>3. QED  BY <2>1, <2>2
<1>6. QED  BY <1>1, <1>2, <1>3, <1>4, <1>5

(* Every step of every thread and process keeps a standing stop visible.   *)
LEMMA NextHeeded == HeededInv /\ [Next]_vars => HeededInv'
<1> SUFFICES ASSUME HeededInv, [Next]_vars  PROVE HeededInv'
  OBVIOUS
<1> USE EmergencyStopAssumption DEF HeededInv, TypeOK, NothingStandsInClear, StandingIsVisible, DurableIsEverywhere,
            AnswerPending, BoundMeetsStop, Clearing, Goto, Idle, estopVars, historyVars
<1>1. ASSUME NEW t \in Threads, StopFlag(t)  PROVE HeededInv'
  BY <1>1 DEF StopFlag
<1>2. ASSUME NEW t \in Threads, StopFile(t)  PROVE HeededInv'
  BY <1>2 DEF StopFile
<1>3. ASSUME NEW t \in Threads, ClearStopped(t)  PROVE HeededInv'
  BY <1>3 DEF ClearStopped
<1>4. ASSUME NEW t \in Threads, ClearPaused(t)  PROVE HeededInv'
  BY <1>4 DEF ClearPaused
<1>5. ASSUME NEW t \in Threads, ClearFile(t)  PROVE HeededInv'
  BY <1>5 DEF ClearFile
<1>6. ASSUME NEW t \in Threads, Pause(t) \/ Resume(t)  PROVE HeededInv'
  <2>1. TypeOK'
    <3>1. CASE Pause(t)   BY <3>1 DEF Pause
    <3>2. CASE Resume(t)  BY <3>2 DEF Resume
    <3>3. QED  BY <1>6, <3>1, <3>2
  <2>2. UNCHANGED <<stopped, sentinel, pc, checking, passed, historyVars>>
    BY <1>6 DEF Pause, Resume
  <2>3. QED
    BY <2>1, <2>2
<1>7. ASSUME NEW t \in Threads, IsStopped(t) \/ Check(t) \/ PauseLoop(t)  PROVE HeededInv'
  BY <1>7, ReadFlagHeeded DEF IsStopped, Check, PauseLoop
<1>8. ASSUME NEW t \in Threads, ProbeFile(t)  PROVE HeededInv'
  BY <1>8 DEF ProbeFile
<1>9. ASSUME NEW t \in Threads, Latch(t)  PROVE HeededInv'
  BY <1>9 DEF Latch
<1>10. ASSUME NEW t \in Threads, CheckPasses(t)  PROVE HeededInv'
  BY <1>10 DEF CheckPasses
<1>11. ASSUME NEW p \in Procs, Restart(p)  PROVE HeededInv'
  BY <1>11 DEF Restart
<1>12. CASE UNCHANGED vars
  BY <1>12 DEF vars
<1>13. QED
  BY <1>1, <1>2, <1>3, <1>4, <1>5, <1>6, <1>7, <1>8, <1>9, <1>10, <1>11, <1>12 DEF Next

(* The state of the halt channel keeps its types, and a check or query     *)
(* that began under a stop no clear() has touched never answers "carry on".*)
THEOREM StopHeeded == Spec => [](TypeOK /\ StopIsHeeded)
<1>1. HeededInv => TypeOK /\ StopIsHeeded
  BY DEF HeededInv, BoundMeetsStop, StopIsHeeded
<1>2. QED
  BY InitHeeded, NextHeeded, <1>1, PTL DEF Spec
=============================================================================
