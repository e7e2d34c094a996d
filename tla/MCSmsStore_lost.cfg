CONSTANTS
    line = line
    port = port
    phone = phone
    byPort = byPort
    byPhone = byPhone
    first = first
    second = second
    code = code
    note = note
    hexed = hexed
    otp = otp
    noon = noon
    night = night
    future = future
    AnyPort = AnyPort
    AnyPhone = AnyPhone
    NoText = NoText
    NoOtp = NoOtp
    NoTime = NoTime
    NoRow = NoRow
    NoSms = NoSms
    Clients = {byPort, byPhone}
    Ports = {port}
    Phones = {phone}
    Lines = {line}
    Handlers = {first, second}
    Texts = {code, note, hexed}
    Hex = {hexed}
    Otps = {otp}
    Times = {noon, night, future}
    Plausible = {noon, night}
    Scanned = {night, future}
    Ids = {1, 2, 3, 4}
    WaitPort <- MCWaitPort
    WaitPhone <- MCWaitPhone
    PhoneOf <- MCPhoneOf
    LinePort <- MCLinePort
    Payloads <- MCResent
    Decode <- MCDecode
    OtpOf <- MCOtpOf
    Corrected <- MCCorrected
    Legacy <- MCNoLegacy
SPECIFICATION Spec
SYMMETRY MCSymmetry
INVARIANT NothingLost
