----------------------------- MODULE DisplayMC -----------------------------
(* Module Display with the two clients of the program: the sound stream, which
   initiates two transfers (sndstream.c:332), and a video, one picture at a
   time (ffmpeg_driver.c:2120). *)
EXTENDS Display, TLC

CONSTANTS sound, video, c1, c2, c3

KindOf == (sound :> "SPU") @@ (video :> "VRAM")
BatchOf == (sound :> 2) @@ (video :> 1)
=============================================================================
