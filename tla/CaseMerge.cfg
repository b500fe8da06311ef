SPECIFICATION MergeSpec
CONSTANTS
    Tickets = {c1, c2, c3}
    Mails = {m1}
    Edits = {e1}
    None = None
SYMMETRY MCSymmetry
INVARIANTS
    NothingOnAMerged
    MessagesFollowMerges
