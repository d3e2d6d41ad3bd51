\* One request at a time; one is cut short.
SPECIFICATION PartSpec
CONSTANTS
    p = p
    t = t
    d1 = d1
    d2 = d2
    d3 = d3
    User = {p, t}
    Donation = {d1, d2, d3}
    Request = {r1}
    NoUser = NoUser
    NoDonation = NoDonation
    Donor <- MCDonor
    Isk <- MCIsk
    Memo <- MCMemo
    Ask <- MCAsk
    More = 1
    AdminAdds = {p, t}
    Validatable = {"AWAITING_INVESTMENT"}
    Refundable = {"OPTED_OUT"}
    PrincipalCap = 4
    MaximumCap = 4
    MaxRows = 2
    MaxFailures = 1
INVARIANTS
    PartTypeOK
    DonationCountedOnce
    BaselineIsBacked
PROPERTIES
    ImplementsDepositAccount
CHECK_DEADLOCK FALSE
