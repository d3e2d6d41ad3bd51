\* One request at a time and none is cut short; p asks for more after paying.
SPECIFICATION PartSpec
CONSTANTS
    p = p
    t = t
    d1 = d1
    d2 = d2
    d3 = d3
    User = {p, t}
    Donation = {d1, d2, d3}
    Request = {r1}
    NoUser = NoUser
    NoDonation = NoDonation
    Donor <- MCDonor
    Isk <- MCIsk
    Memo <- MCMisspelt
    Ask <- MCAsk
    More = 1
    AdminAdds = {p, t}
    Validatable = {"AWAITING_INVESTMENT"}
    Refundable = {"OPTED_OUT"}
    PrincipalCap = 4
    MaximumCap = 4
    MaxRows = 2
    MaxFailures = 0
PROPERTIES
    PaymentNotForgotten
CHECK_DEADLOCK FALSE
