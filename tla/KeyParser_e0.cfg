SPECIFICATION KeysSpec
CONSTANTS
    Letters = {a}  Pads = {pad7}  Others = {one}  E0Keys = {up}
    LSHIFT = LSHIFT  RSHIFT = RSHIFT  CAPSLOCK = CAPSLOCK  NUMLOCK = NUMLOCK
    LCTRL = LCTRL  Pause = Pause
INVARIANT ParsesAsTyped
CHECK_DEADLOCK FALSE
