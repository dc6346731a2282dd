SPECIFICATION Spec
CONSTANTS
    b1 = b1
    h1 = h1 h2 = h2
    e1 = e1 e2 = e2
    k1 = k1 k2 = k2 k3 = k3
    None = None
    Boxes <- MCBoxes
    Hosts <- MCHosts
    Entries <- MCEntries
    Tokens <- MCTokens
INVARIANTS TypeOK HooksMatch HearsItsAddress 
 
SYMMETRY Symmetry
