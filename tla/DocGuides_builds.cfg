SPECIFICATION Spec
CONSTANTS
    Guides <- MCGuides
    None = None
    Empty = Empty
INVARIANT TypeOK
INVARIANT ListedHasPages
INVARIANT LinksLead
