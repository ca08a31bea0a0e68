\* The swept address pays its own fee, on a cluster that keeps going.
SPECIFICATION FairSpec
CONSTANTS
    a1 = a1
    a2 = a2
    s1 = s1
    authority = authority
    stranger = stranger
    Address = {a1, a2}
    Session = {s1}
    Authority = authority
    Keypairs = {authority, stranger}
    AuthorityPays = FALSE
    MaxAge = 1
    MaxProposals = 3
    MaxEmpty = 1
    MaxForks = 1
    NoTx = NoTx
    NoSignature = NoSignature
PROPERTIES ImplementsSweepOnce BroadcastSettles
