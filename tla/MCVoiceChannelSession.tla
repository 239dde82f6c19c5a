------------------------- MODULE MCVoiceChannelSession -------------------------
(***************************************************************************)
(* Small instances of VoiceChannelSession for TLC: music and        *)
(* conversations, of which one wants another channel.                        *)
(***************************************************************************)
EXTENDS VoiceChannelSession, TLC

CONSTANTS music, ann, bob, eve, hall, den

Kinds ==
    (music :> "music") @@ (ann :> "conversation") @@ (bob :> "conversation")
        @@ (eve :> "conversation")
Places == (music :> hall) @@ (ann :> hall) @@ (bob :> hall) @@ (eve :> den)
=============================================================================
