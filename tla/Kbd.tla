-------------------------------- MODULE Kbd --------------------------------
(***************************************************************************)
(* The keyboard driver (kbd.c): how kbdgetc keeps the modifiers and the E0 *)
(* prefix, with which it looks up a character, in the static variable      *)
(* shift.  The keyboard itself is external: it sends a code when a key     *)
(* goes down and again while it is held, and the code + 128 when it comes  *)
(* up, either after E0 for some keys.                                      *)
(***************************************************************************)
EXTENDS Integers, Sequences

CONSTANTS
  KeySet,   \* the keys of this keyboard: [code, ext]
  Wire      \* most bytes the controller holds

E0 == 224

VARIABLES
  shift,    \* the flags of kbdgetc: modifiers, toggles, E0ESC
  wire,     \* bytes not read yet
  down,     \* the keys held down
  caps      \* TRUE when caps lock's code was sent an odd number of times

vars == <<shift, wire, down, caps>>

(* kbd.h's tables, for the codes used here.  An E0 key has its code + 128. *)
shiftcode(d) ==
  CASE d \in {29, 157} -> {"CTL"}
    [] d \in {42, 54} -> {"SHIFT"}
    [] d \in {56, 184} -> {"ALT"}
    [] OTHER -> {}

togglecode(d) ==
  CASE d = 58 -> {"CAPSLOCK"} [] d = 69 -> {"NUMLOCK"} [] d = 70 -> {"SCROLLLOCK"} [] OTHER -> {}

Init == shift = {} /\ wire = << >> /\ down = {} /\ caps = FALSE

-----------------------------------------------------------------------------
(* the keyboard *)
Bytes(k, d) == (IF k.ext THEN <<E0>> ELSE << >>) \o <<d>>

(* also the auto-repeat of a key that is down *)
Press(k) ==
  /\ Len(wire) + 2 <= Wire
  /\ wire' = wire \o Bytes(k, k.code)
  /\ down' = down \cup {k} /\ caps' = (caps # (k = [code |-> 58, ext |-> FALSE]))
  /\ UNCHANGED shift

Release(k) ==
  /\ k \in down /\ Len(wire) + 2 <= Wire
  /\ wire' = wire \o Bytes(k, k.code + 128)
  /\ down' = down \ {k}
  /\ UNCHANGED <<shift, caps>>

-----------------------------------------------------------------------------
(* kbdgetc: one byte.  A release drops the key's own flag *)
ReleasedCode(d) == IF "E0ESC" \in shift THEN d ELSE d % 128

KeepsEscape(d) == shift \ shiftcode(ReleasedCode(d))

AfterRelease(d) == shift \ (shiftcode(ReleasedCode(d)) \cup {"E0ESC"})

PressedCode(d) == IF "E0ESC" \in shift THEN d + 128 ELSE d

AfterPress(d) ==
  LET held == (shift \ {"E0ESC"}) \cup shiftcode(PressedCode(d))
      t == togglecode(PressedCode(d))
  IN (held \ t) \cup (t \ held)

kbdgetc ==
  /\ wire # << >> /\ wire' = Tail(wire)
  /\ LET d == Head(wire) IN
     \/ d = E0 /\ shift' = shift \cup {"E0ESC"}
     \/ d # E0 /\ d >= 128 /\ shift' = AfterRelease(d)
     \/ d < 128 /\ shift' = AfterPress(d)
  /\ UNCHANGED <<down, caps>>

Next == kbdgetc \/ \E k \in KeySet : Press(k) \/ Release(k)

Spec == Init /\ [][Next]_vars

-----------------------------------------------------------------------------
(* No modifier sticks: once every scancode is read, a modifier flag is set   *)
(* only while one of its keys is down, left or right, and no E0 prefix is    *)
(* pending.  (Releasing one of two shift keys does clear the flag.)          *)
FullCode(k) == IF k.ext THEN k.code + 128 ELSE k.code
NoStuckModifier ==
  wire = << >> =>
    /\ \A m \in {"SHIFT", "CTL", "ALT"} \cap shift : \E k \in down : m \in shiftcode(FullCode(k))
    /\ "E0ESC" \notin shift

(* Caps lock changes with every code of its key, and so again and again      *)
(* while the key is held down and repeats.                                   *)
CapsFollows == wire = << >> => (caps <=> "CAPSLOCK" \in shift)
=============================================================================
