-------------------------------- MODULE Kbd ---------------------------------
(***************************************************************************)
(* The keyboard driver (devices/kbd.c): the state of the shift keys and    *)
(* what a scan code makes of it.  Characters are ASCII codes.              *)
(***************************************************************************)
EXTENDS Integers, Sequences, TLC

VARIABLES shifts,      \* the shift keys that are depressed, as in shift_keys
          caps_lock

kbdVars == <<shifts, caps_lock>>

KbdInit == shifts = {} /\ caps_lock = FALSE

(* Keymaps: a scan code and the characters from this code on.              *)
invariant_keymap == <<
    <<1, <<27>>>>, <<14, <<8>>>>, <<15, <<9, 81, 87, 69, 82, 84, 89, 85, 73, 79, 80>>>>,
    <<28, <<13>>>>, <<30, <<65, 83, 68, 70, 71, 72, 74, 75, 76>>>>,
    <<44, <<90, 88, 67, 86, 66, 78, 77>>>>, <<55, <<42>>>>, <<57, <<32>>>>, <<83, <<127>>>> >>

unshifted_keymap == <<
    <<2, <<49, 50, 51, 52, 53, 54, 55, 56, 57, 48, 45, 61>>>>, <<26, <<91, 93>>>>,
    <<39, <<59, 39, 96>>>>, <<43, <<92>>>>, <<51, <<44, 46, 47>>>> >>

shifted_keymap == <<
    <<2, <<33, 64, 35, 36, 37, 94, 38, 42, 40, 41, 95, 43>>>>, <<26, <<123, 125>>>>,
    <<39, <<58, 34, 126>>>>, <<43, <<124>>>>, <<51, <<60, 62, 63>>>> >>

(* Scan codes after a prefix byte are above 255.                           *)
PREFIX == 224 * 256

shift_keys == (42 :> "left_shift") @@ (54 :> "right_shift") @@ (56 :> "left_alt")
    @@ (PREFIX + 56 :> "right_alt") @@ (29 :> "left_ctrl") @@ (PREFIX + 29 :> "right_ctrl")

(* The characters that map_key may find; the maps have no code twice.      *)
map_key(k, code) ==
    {k[i][2][code - k[i][1] + 1] :
        i \in {j \in DOMAIN k : code \in k[j][1]..(k[j][1] + Len(k[j][2]) - 1)}}

Down(side1, side2) == side1 \in shifts \/ side2 \in shifts

shift == Down("left_shift", "right_shift")

alt == Down("left_alt", "right_alt")

ctrl == Down("left_ctrl", "right_ctrl")

(* The character of a key, in a set of at most one.                        *)
Chars(code) ==
    map_key(invariant_keymap, code)
        \cup map_key(IF shift THEN shifted_keymap ELSE unshifted_keymap, code)

tolower(c) == IF c \in 65..90 THEN c + 32 ELSE c

(* The byte for character c, with Ctrl, Shift, Caps Lock and Alt.          *)
Modified(c) ==
    (IF ctrl /\ c >= 64 /\ c < 96 THEN c - 64 ELSE IF shift = caps_lock THEN tolower(c) ELSE c)
        + (IF alt THEN 128 ELSE 0)

Reboots(c) == c = 127 /\ ctrl /\ alt

(* keyboard_interrupt for scan code code without its release bit: the      *)
(* shift keys and Caps Lock after it, and the bytes it produces.           *)
NextShifts(code, release) ==
    IF code = 58 \/ Chars(code) # {} \/ code \notin DOMAIN shift_keys THEN shifts
    ELSE IF release THEN shifts \ {shift_keys[code]}
    ELSE shifts \cup {shift_keys[code]}

NextCapsLock(code, release) == IF code = 58 /\ ~release THEN ~caps_lock ELSE caps_lock

KeyBytes(code, release) ==
    IF code = 58 \/ release THEN {} ELSE {Modified(c) : c \in Chars(code)}

(* Ctrl+Alt+Del does not return: the machine reboots.                      *)
KeyStroke(code, release) ==
    /\ code = 58 \/ release \/ \A c \in Chars(code) : ~Reboots(c)
    /\ shifts' = NextShifts(code, release)
    /\ caps_lock' = NextCapsLock(code, release)
=============================================================================
