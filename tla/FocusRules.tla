----------------------------- MODULE FocusRules -----------------------------
(***************************************************************************)
(* The keyboard-focus rules of src/src/core/gowl-focus-rules.c: pure       *)
(* decision functions, free of state.  Every module that moves the         *)
(* keyboard extends this one, the way every focus change in the compositor *)
(* goes through gowl_compositor_focus_client().                            *)
(***************************************************************************)
EXTENDS Naturals

\* GOWL_LAYER_KEYBOARD_MIN: background (0) and bottom (1) layers never take
\* the keyboard, top (2) and overlay (3) may.
LayerKeyboardMin == 2

\* gowl_layer_takes_keyboard(): whether a layer surface owns the keyboard.
LayerTakesKeyboard(sessionLocked, mapped, interactive, layer) ==
  /\ ~sessionLocked
  /\ mapped
  /\ interactive # 0
  /\ layer >= LayerKeyboardMin

\* gowl_focus_decide(): every authority that can refuse a focus change.  The
\* code tests them in this order and reports the first; only whether the
\* answer is ALLOW changes any state.
FocusAllowed(sessionLocked, embedded, passivePopup, layerGrab, exclusive, targetIsExclusive) ==
  /\ ~sessionLocked
  /\ ~embedded
  /\ ~passivePopup
  /\ ~layerGrab
  /\ exclusive => targetIsExclusive

=============================================================================
