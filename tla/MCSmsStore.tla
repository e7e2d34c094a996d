----------------------------- MODULE MCSmsStore -----------------------------
(* The constants of SmsStore for TLC.  SMS come to one line: a code and a    *)
(* notice.  "hexed" is the notice in UCS2 as an earlier version stored it,   *)
(* "future" a misread date of a later year, which is corrected to "night".   *)
EXTENDS SmsStore, TLC

CONSTANTS line, port, phone, byPort, byPhone, first, second,
          code, note, hexed, otp, noon, night, future

MCLinePort == line :> port
MCWaitPort == byPort :> port @@ byPhone :> AnyPort
MCWaitPhone == byPort :> AnyPhone @@ byPhone :> phone
MCPhoneOf == port :> phone
MCPayloads ==
    {[line |-> line, text |-> code, time |-> noon], [line |-> line, text |-> code, time |-> future],
     [line |-> line, text |-> note, time |-> noon]}
MCDecode == code :> code @@ note :> note @@ hexed :> note
MCOtpOf == [t \in Texts |-> IF t = code THEN otp ELSE NoOtp]
MCCorrected == noon :> NoTime @@ night :> NoTime @@ future :> night
MCResent == {[line |-> line, text |-> code, time |-> noon], [line |-> line, text |-> code, time |-> night]}
MCSymmetry == Permutations({first, second})
MCNoLegacy == [id \in Ids |-> NoRow]
MCLegacy ==
    [id \in Ids |->
        CASE id = 1 -> [line |-> line, text |-> hexed, time |-> future, otp |-> NoOtp]
          [] id = 2 -> [line |-> line, text |-> code, time |-> noon, otp |-> otp]
          [] id = 3 -> [line |-> line, text |-> code, time |-> night, otp |-> NoOtp]
          [] OTHER  -> NoRow]

=============================================================================
