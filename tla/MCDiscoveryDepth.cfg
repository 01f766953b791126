CONSTANTS
    root = root
    folder = folder
    obj1 = obj1
    obj2 = obj2
    obj3 = obj3
    var1 = var1
    var2 = var2
    var3 = var3
    server = server
    Folders = {root, folder}
    ObjectsFolder = root
    Objects = {obj1, obj2, obj3}
    Variables = {var1, var2, var3}
    Ignored = {server}
    Spaces <- MCSpaces
    MaximumBrowseDepth = 2
    MaximumObjects = 2
    MaximumTags = 2
SPECIFICATION Spec
INVARIANT NodesWithinDepthAreFound
