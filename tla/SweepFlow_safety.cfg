\* Two runs of the program over two addresses, paid for by the authority.
SPECIFICATION Spec
CONSTANTS
    a1 = a1
    a2 = a2
    s1 = s1
    s2 = s2
    authority = authority
    stranger = stranger
    Address = {a1, a2}
    Session = {s1, s2}
    Authority = authority
    Keypairs = {authority, stranger}
    AuthorityPays = TRUE
    MaxAge = 1
    MaxProposals = 3
    MaxEmpty = 1
    MaxForks = 1
    NoTx = NoTx
    NoSignature = NoSignature
SYMMETRY Symmetry
INVARIANTS TypeOK SlotPerSigner SpentOnce NoBurnedNonce ApprovalDelayHarmless LandedAsProposed SignedComplete
