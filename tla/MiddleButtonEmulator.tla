------------------------ MODULE MiddleButtonEmulator ------------------------
(***************************************************************************)
(* Three-button emulation (MiddleButtonEmulator.cxx): a left and a right   *)
(* press within the delay become a middle press.  The class is a value     *)
(* with three methods and no clock of its own, so it is modelled by        *)
(* operators from an emulator to an emulator and a batch of events.        *)
(*                                                                         *)
(* A button is the bit's number, a mask a set of buttons: 1 left,          *)
(* 2 middle, 3 right; higher numbers pass through untouched.               *)
(***************************************************************************)
EXTENDS Integers, Sequences

Left == 1
Middle == 2
Right == 3

\* StateTab[state + 1][event] is <<action, action, new state>>; an action b
\* presses button b, -b releases it, 0 does nothing.  The events are: neither,
\* left, right, both, timeout; a new state -1 is never reached.
StateTab == <<
  << <<0,0,0>>,   <<0,0,1>>,   <<0,0,2>>,   <<2,0,3>>,  <<0,0,-1>> >>,  \*  0 ground
  << <<1,-1,0>>,  <<0,0,1>>,   <<1,-1,2>>,  <<2,0,3>>,  <<1,0,4>> >>,   \*  1 delayed left
  << <<3,-3,0>>,  <<3,-3,1>>,  <<0,0,2>>,   <<2,0,3>>,  <<3,0,5>> >>,   \*  2 delayed right
  << <<-2,0,0>>,  <<0,0,7>>,   <<0,0,6>>,   <<0,0,3>>,  <<0,0,-1>> >>,  \*  3 pressed middle
  << <<-1,0,0>>,  <<0,0,4>>,   <<-1,0,2>>,  <<3,0,10>>, <<0,0,-1>> >>,  \*  4 pressed left
  << <<-3,0,0>>,  <<-3,0,1>>,  <<0,0,5>>,   <<1,0,10>>, <<0,0,-1>> >>,  \*  5 pressed right
  << <<-2,0,0>>,  <<-2,0,1>>,  <<0,0,6>>,   <<1,0,8>>,  <<0,0,-1>> >>,  \*  6 released left
  << <<-2,0,0>>,  <<0,0,7>>,   <<-2,0,2>>,  <<3,0,9>>,  <<0,0,-1>> >>,  \*  7 released right
  << <<-2,-1,0>>, <<-2,0,4>>,  <<-1,0,6>>,  <<0,0,8>>,  <<0,0,-1>> >>,  \*  8 repressed left
  << <<-2,-3,0>>, <<-3,0,7>>,  <<-2,0,5>>,  <<0,0,9>>,  <<0,0,-1>> >>,  \*  9 repressed right
  << <<-1,-3,0>>, <<-3,0,4>>,  <<-1,0,5>>,  <<0,0,10>>, <<0,0,-1>> >>   \* 10 pressed both
>>

\* A default-constructed emulator; reset() returns to it.
NewEmulator == [state |-> 0, emulated |-> {}, lastButtons |-> {}, original |-> 0,
                lastPosition |-> 0]

\* pending(): a press is held back until the timer or the next event.
Pending(m) == m.state \in {1, 2}

Event(buttons) ==
  1 + (IF Left \in buttons THEN 1 ELSE 0) + (IF Right \in buttons THEN 2 ELSE 0)

\* mask(): what the server is shown.
Mask(emulated, buttons) == (buttons \ {Left, Right}) \cup emulated

\* action(): the emulated buttons after one entry of the table.
Acted(emulated, action) ==
  IF action < 0 THEN emulated \ {-action} ELSE emulated \cup ({action} \ {0})

\* The emulated buttons after the first i actions of a row.
After(m, row, i) ==
  IF i = 1 THEN Acted(m.emulated, row[1]) ELSE Acted(Acted(m.emulated, row[1]), row[2])

\* The events of a row of the table: one per action, each at its own place.
Actions(m, row, buttons, places) ==
  LET sent(i) == IF row[i] = 0 THEN <<>>
                 ELSE <<[position |-> places[i], buttons |-> Mask(After(m, row, i), buttons)]>>
  IN sent(1) \o sent(2)

\* A press that was held back is sent where it was made.
PressPlace(m, position, action) ==
  IF Pending(m) /\ action > 0 THEN m.original ELSE position

\* pointer()
EmulatedPointer(m, position, buttons) ==
  LET row == StateTab[m.state + 1][Event(buttons)]
      places == [i \in 1 .. 2 |-> PressPlace(m, position, row[i])]
      acted == Actions(m, row, buttons, places)
      changed == m.state # row[3]
      now == [m EXCEPT !.state = row[3],
                       !.emulated = After(m, row, 2),
                       !.lastButtons = buttons,
                       !.lastPosition = position]
  IN [emulator |-> IF changed /\ Pending(now) THEN [now EXCEPT !.original = position] ELSE now,
      events |-> IF row[1] = 0 /\ row[2] = 0 /\ ~Pending(m)
                 THEN <<[position |-> position, buttons |-> Mask(m.emulated, buttons)]>>
                 ELSE acted,
      timerChanged |-> changed]

\* expire(), which does nothing unless a press is pending.
Expired(m) ==
  LET row == StateTab[m.state + 1][5]
      emulated == After(m, row, 2)
      moved == IF m.original = m.lastPosition THEN <<>>
               ELSE <<[position |-> m.lastPosition, buttons |-> Mask(emulated, m.lastButtons)]>>
  IN IF Pending(m)
     THEN [emulator |-> [m EXCEPT !.state = row[3], !.emulated = emulated],
           events |-> Actions(m, row, m.lastButtons, <<m.original, m.original>>) \o moved]
     ELSE [emulator |-> m, events |-> <<>>]
=============================================================================
